---------------------------- MODULE Spec2Model ----------------------------
(***************************************************************************)
(* TaskMaster integration of claudecodeui: the detection routes and their  *)
(* status derivation, the client status component, the task normalizer of  *)
(* GET /tasks, and template placeholder scanning and substitution; the     *)
(* routes that spawn the task-master CLI, the PRD file routes, the         *)
(* WebSocket broadcasts, the tasks settings provider, the setup wizard,    *)
(* and the search of the Claude configuration files for the MCP server.    *)
(*                                                                         *)
(* Every request handler is one action.  A handler reads the filesystem    *)
(* and the configuration as they are when the request runs: what it reads  *)
(* is drawn from bounded sets, and the response is computed as the code    *)
(* computes it.  pc = "idle" between requests.                             *)
(***************************************************************************)
EXTENDS Integers, Sequences, FiniteSets, TLC

VARIABLES pc, req, resp, broadcast, previous,
          selectedTemplate, customizations, step,
          world, hpc, awaiting, locals, responses, sent,
          cliReq, cpc, child, outbox, tasksFile,
          storage, spc, saved, tasksEnabled, isTaskMasterInstalled,
          isTaskMasterReady, installationStatus, isCheckingInstallation,
          clients, fanCall,
          prdReq, accessed, prdResp,
          ipc, dotTaskmaster, initDir, initAnswers,
          currentStep, loading, error, setupData, currentProject, wizard, posted,
          configFiles, mpc, reads, configData, taskMasterServer, detected

\* one request at a time: the request, its answer, what was broadcast
requestVars == <<pc, req, resp, broadcast, previous>>

\* the TemplateSelector component's state
templateVars == <<selectedTemplate, customizations, step>>

\* simultaneous detect requests: what is on disk, and for each request its
\* position, its outstanding promises, its local variables and its answer
concurrentVars == <<world, hpc, awaiting, locals, responses, sent>>

\* a request that shells out to the task-master CLI: the request, the
\* handler's position, the spawned child, what the handler has sent (broadcasts
\* and responses in order) and the version of tasks.json on disk
cliVars == <<cliReq, cpc, child, outbox, tasksFile>>

\* the TasksSettingsProvider: the 'tasks-enabled' item of localStorage, the
\* provider's position, what its first render read, and its React state
settingsVars == <<storage, spc, saved, tasksEnabled, isTaskMasterInstalled,
                  isTaskMasterReady, installationStatus, isCheckingInstallation>>

\* the WebSocket server's clients with what each has received, and the last
\* broadcast call with how it ended
fanoutVars == <<clients, fanCall>>

\* a request to a PRD endpoint: the request, the files the handler has
\* touched (operation and normalised path, in order) and the status it answered
prdVars == <<prdReq, accessed, prdResp>>

\* simultaneous POST /init requests for one project: each request's position,
\* whether <project>/.taskmaster exists, whether the project resolves, and the
\* status each request was answered with
initVars == <<ipc, dotTaskmaster, initDir, initAnswers>>

\* the setup wizard: its React state, its currentProject prop, the request it
\* awaits and the body it posted to /taskmaster/initialize
wizardVars == <<currentStep, loading, error, setupData, currentProject, wizard, posted>>

\* one call of detectTaskMasterMCPServer: the two configuration files, the
\* call's position, the files it has read, and its locals and result
mcpVars == <<configFiles, mpc, reads, configData, taskMasterServer, detected>>

vars == <<requestVars, templateVars, concurrentVars, cliVars, settingsVars, fanoutVars,
          prdVars, initVars, wizardVars, mcpVars>>

(***************************************************************************)
(* Bounds of the model.                                                    *)
(***************************************************************************)
MaxProjects == 2

MaxTasks == 2

MaxKeys == 2

MaxLen == 6

MaxValueLen == 2

MaxCounted == 3

(***************************************************************************)
(* Generic helpers.                                                        *)
(***************************************************************************)
SeqsUpTo(S, n) == UNION {[1..k -> S] : k \in 0..n}

\* JavaScript truthiness of a property that may be absent: undefined is falsy.
BoolField(r, f) == f \in DOMAIN r /\ r[f]

NoMsg == [type |-> "none"]

NoResp == [op |-> "none"]

NoReq == [op |-> "none"]

(***************************************************************************)
(* JavaScript values, as JSON.parse builds them.  An object carries its    *)
(* keys in enumeration order (Object.keys) and its properties.             *)
(***************************************************************************)
U == [t |-> "undef"]

Null == [t |-> "null"]

Str(s) == [t |-> "str", s |-> s]

Num(n) == [t |-> "num", n |-> n]

List(l) == [t |-> "list", l |-> l]

MkObj(pairs) ==
    [t |-> "obj",
     keys |-> [i \in 1..Len(pairs) |-> pairs[i][1]],
     o |-> [k \in {pairs[i][1] : i \in 1..Len(pairs)} |->
               pairs[CHOOSE i \in 1..Len(pairs) : pairs[i][1] = k][2]]]

\* reading a property of null or undefined throws a TypeError
Throws(v) == v.t \in {"null", "undef"}

\* v.f for a value that is neither null nor undefined
Prop(v, f) == IF v.t = "obj" /\ f \in DOMAIN v.o THEN v.o[f] ELSE U

Truthy(v) ==
    CASE v.t = "undef" -> FALSE
      [] v.t = "null" -> FALSE
      [] v.t = "str" -> v.s # ""
      [] v.t = "num" -> v.n # 0
      [] OTHER -> TRUE

\* a || b
Or(a, b) == IF Truthy(a) THEN a ELSE b

IsArray(v) == v.t = "list"

\* Object.keys: a number has no enumerable keys of its own
ObjectKeys(v) == IF v.t = "obj" THEN v.keys ELSE <<>>

(***************************************************************************)
(* The contents of tasks.json the model draws from.                        *)
(***************************************************************************)
TaskA == MkObj(<< <<"id", Num(1)>>, <<"title", Str("A")>> >>)

TaskFull ==
    MkObj(<< <<"id", Num(3)>>, <<"title", Str("B")>>,
             <<"description", Str("d")>>, <<"status", Str("done")>>,
             <<"priority", Str("high")>>,
             <<"dependencies", List(<<Num(1)>>)>>,
             <<"details", Str("x")>>, <<"testStrategy", Str("t")>>,
             <<"subtasks", List(<< MkObj(<< <<"id", Num(1)>>,
                                            <<"title", Str("s")>> >>) >>)>> >>)

TaskBlocked ==
    MkObj(<< <<"id", Num(4)>>, <<"title", Str("C")>>,
             <<"status", Str("blocked")>> >>)

TaskAlias == MkObj(<< <<"id", Num(5)>>, <<"test_strategy", Str("ts")>> >>)

TaskSamples == {TaskA, TaskFull, TaskBlocked, TaskAlias, Null}

TaskLists(n) == SeqsUpTo(TaskSamples, n)

\* what a "tasks" property may hold: null, a string, 0, or a list
TasksValues(n) == {Null, Str("x"), Num(0)} \cup {List(l) : l \in TaskLists(n)}

\* the task lists a tag may hold
TagTaskLists == {<<>>, <<TaskA>>, <<TaskBlocked>>}

\* what a tag key may hold
TagValues ==
    {Null, Num(5), MkObj(<<>>)}
    \cup {MkObj(<< <<"tasks", v>> >>) :
              v \in {Null, Str("x"), Num(0)} \cup {List(l) : l \in TagTaskLists}}

DocKeys == {"tasks", "master", "featureX"}

KeySeqs ==
    {ks \in SeqsUpTo(DocKeys, MaxKeys) :
        \A i, j \in DOMAIN ks : i # j => ks[i] # ks[j]}

\* the documents that are no object: null, a number, a flat list of tasks
PlainDocs == {Null, Num(5)} \cup {List(l) : l \in TaskLists(MaxTasks)}

\* the object whose keys are ks, in that order, each holding its value
ObjectDoc(ks, tasksValue, masterValue, tagValue) ==
    MkObj([i \in DOMAIN ks |->
              <<ks[i], CASE ks[i] = "tasks" -> tasksValue
                         [] ks[i] = "master" -> masterValue
                         [] OTHER -> tagValue>>])

Clock == {"t1", "t2"}

(***************************************************************************)
(* detectTaskMasterFolder: the task statistics of tasks.json               *)
(***************************************************************************)
\* a task whose status is the name of a key of the accumulator
TaskTotal == MkObj(<< <<"id", Num(6)>>, <<"status", Str("total")>> >>)

MetaTaskSamples == {TaskA, TaskFull, TaskBlocked, TaskTotal, Null}

MetaTaskLists(n) == SeqsUpTo(MetaTaskSamples, n)

\* the contents of tasks.json detection may parse: null, a number, a flat
\* list, the legacy {tasks: ...} object, and objects of one or two tags
MetaDocs ==
    {Null, Num(5)}
    \cup {List(l) : l \in MetaTaskLists(1)}
    \cup {MkObj(<< <<"tasks", v>> >>) :
             v \in {Null, Str("x"), Num(0)}
                   \cup {List(l) : l \in MetaTaskLists(MaxCounted)}}
    \cup {MkObj(<< <<"master", a>> >>) : a \in TagValues}
    \cup {MkObj(<< <<"master", a>>, <<"featureX", b>> >>) :
             a \in TagValues, b \in TagValues}

\* the content the projects of GET /detect-all are given
SampleDoc == MkObj(<< <<"tasks", List(<<TaskFull, TaskA>>)>> >>)

\* Object.values(v)
ObjectValues(v) ==
    IF v.t = "obj" THEN [i \in DOMAIN v.keys |-> v.o[v.keys[i]]]
    ELSE IF v.t = "list" THEN v.l
    ELSE <<>>

RECURSIVE ConcatTags(_, _, _)
\* Object.values(tasksData).forEach(tagData => { if (tagData.tasks) tasks =
\* tasks.concat(tagData.tasks) }): concat appends the elements of a list and
\* any other value as one element
ConcatTags(values, i, tasks) ==
    IF i > Len(values) THEN [threw |-> FALSE, tasks |-> List(tasks)]
    ELSE IF Throws(values[i]) THEN [threw |-> TRUE, tasks |-> List(<<>>)]
    ELSE LET t == Prop(values[i], "tasks")
         IN  IF ~Truthy(t) THEN ConcatTags(values, i + 1, tasks)
             ELSE IF IsArray(t) THEN ConcatTags(values, i + 1, tasks \o t.l)
             ELSE ConcatTags(values, i + 1, Append(tasks, t))

\* the tasks the statistics run over
CollectTasks(tasksData) ==
    IF Throws(tasksData) THEN [threw |-> TRUE, tasks |-> List(<<>>)]
    ELSE IF Truthy(Prop(tasksData, "tasks"))
    THEN [threw |-> FALSE, tasks |-> Prop(tasksData, "tasks")]
    ELSE ConcatTags(ObjectValues(tasksData), 1, <<>>)

\* the keys the accumulator of reduce starts with (its subtasks object apart)
StatKeys ==
    {"total", "subtotalTasks", "pending", "in-progress", "done", "review",
     "deferred", "cancelled"}

\* the key acc[task.status] reads and writes
StatusKey(task) ==
    LET status == Prop(task, "status")
    IN  IF status.t = "str" THEN status.s
        ELSE IF status.t = "null" THEN "null"
        ELSE "undefined"

AccKeys == StatKeys \cup {"blocked", "undefined", "null"}

\* task.subtasks.forEach of one task: the number of subtasks counted
SubtasksThrow(task) ==
    LET subtasks == Prop(task, "subtasks")
    IN  Truthy(subtasks) /\ (~IsArray(subtasks)
                            \/ \E i \in DOMAIN subtasks.l : Throws(subtasks.l[i]))

SubtaskCount(task) ==
    LET subtasks == Prop(task, "subtasks")
    IN  IF Truthy(subtasks) /\ IsArray(subtasks) THEN Len(subtasks.l) ELSE 0

RECURSIVE TaskStats(_, _)
\* tasks.reduce((acc, task) => { acc.total++; acc[task.status] = ... }, {...})
\* over the first n tasks
TaskStats(tasks, n) ==
    IF n = 0 THEN [k \in AccKeys |-> 0]
    ELSE LET acc == TaskStats(tasks, n - 1)
             counted == [acc EXCEPT !["total"] = @ + 1]
             byStatus == [counted EXCEPT ![StatusKey(tasks[n])] = @ + 1]
         IN  [byStatus EXCEPT !["subtotalTasks"] = @ + SubtaskCount(tasks[n])]

\* Math.round(num / den) for num >= 0 and den > 0: halves round up
MathRound(num, den) == (2 * num + den) \div (2 * den)

MetadataError == [error |-> "Failed to parse tasks.json"]

\* taskMetadata for a tasks.json that parsed into tasksData
TaskMetadata(tasksData) ==
    LET c == CollectTasks(tasksData)
    IN  IF c.threw THEN MetadataError
        \* tasks.reduce is not a function
        ELSE IF ~IsArray(c.tasks) THEN MetadataError
        \* task.status of a null element, forEach of a subtasks that is no list
        ELSE IF \E i \in DOMAIN c.tasks.l :
                    Throws(c.tasks.l[i]) \/ SubtasksThrow(c.tasks.l[i])
        THEN MetadataError
        ELSE LET stats == TaskStats(c.tasks.l, Len(c.tasks.l))
             IN  [taskCount |-> stats["total"],
                  subtaskCount |-> stats["subtotalTasks"],
                  completed |-> stats["done"],
                  pending |-> stats["pending"],
                  inProgress |-> stats["in-progress"],
                  review |-> stats["review"],
                  completionPercentage |->
                      IF stats["total"] > 0
                      THEN MathRound(stats["done"] * 100, stats["total"])
                      ELSE 0]

(***************************************************************************)
(* detectTaskMasterFolder: what one call finds on disk.                    *)
(*   folder   : stat of <project>/.taskmaster                              *)
(*   tasks    : tasks/tasks.json is readable (access R_OK)                 *)
(*   config   : config.json is readable                                    *)
(*   content  : tasks.json parses into doc ("valid") or JSON.parse throws  *)
(***************************************************************************)
FolderObsOver(docs) ==
    {[folder |-> f, tasks |-> FALSE, config |-> FALSE, content |-> "none",
      doc |-> Null] : f \in {"missing", "notdir", "staterr"}}
    \cup {[folder |-> "dir", tasks |-> FALSE, config |-> c, content |-> "none",
           doc |-> Null] : c \in BOOLEAN}
    \cup {[folder |-> "dir", tasks |-> TRUE, config |-> c,
           content |-> "malformed", doc |-> Null] : c \in BOOLEAN}
    \cup {[folder |-> "dir", tasks |-> TRUE, config |-> c, content |-> "valid",
           doc |-> d] : c \in BOOLEAN, d \in docs}

FolderObs == FolderObsOver(MetaDocs)

detectTaskMasterFolder(o) ==
    CASE o.folder = "notdir" ->
            [hasTaskmaster |-> FALSE,
             reason |-> ".taskmaster exists but is not a directory"]
      [] o.folder = "missing" ->
            [hasTaskmaster |-> FALSE,
             reason |-> ".taskmaster directory not found"]
      [] o.folder = "staterr" ->
            [hasTaskmaster |-> FALSE,
             reason |-> "Error checking directory"]
      [] o.folder = "dir" ->
            [hasTaskmaster |-> TRUE,
             hasEssentialFiles |-> o.tasks,
             files |-> [tasks |-> o.tasks, config |-> o.config],
             metadata |-> IF ~o.tasks THEN Null
                          ELSE IF o.content = "valid" THEN TaskMetadata(o.doc)
                          ELSE MetadataError]

(***************************************************************************)
(* detectTaskMasterMCPServer: what one call finds in the configuration.    *)
(*   config : "unreadable" when neither file can be read, "malformed" when *)
(*            none that can be read parses, "parsed" otherwise             *)
(*   entry  : "absent" no matching server, "null" a matching name whose    *)
(*            config is null, "object" a matching entry                    *)
(***************************************************************************)
McpObs ==
    {[config |-> k, entry |-> "absent", command |-> FALSE, url |-> FALSE] :
        k \in {"unreadable", "malformed"}}
    \cup {[config |-> "parsed", entry |-> e, command |-> FALSE, url |-> FALSE] :
        e \in {"absent", "null"}}
    \cup {[config |-> "parsed", entry |-> "object", command |-> c, url |-> u] :
        c \in BOOLEAN, u \in BOOLEAN}

\* as if the entry's config were read with config?.command
detectTaskMasterMCPServerNullEntry(m) ==
    IF m.config # "parsed"
    THEN [hasMCPServer |-> FALSE,
          reason |-> "No Claude configuration file found",
          hasConfig |-> FALSE]
    ELSE IF m.entry = "absent"
    THEN [hasMCPServer |-> FALSE,
          reason |-> "task-master-ai not found in configured MCP servers",
          hasConfig |-> TRUE]
    ELSE [hasMCPServer |-> TRUE,
          isConfigured |-> (m.command \/ m.url),
          type |-> IF m.command THEN "stdio"
                   ELSE IF m.url THEN "http" ELSE "unknown"]

detectTaskMasterMCPServer(m) ==
    IF m.config # "parsed"
    THEN [hasMCPServer |-> FALSE,
          reason |-> "No Claude configuration file found",
          hasConfig |-> FALSE]
    ELSE IF m.entry = "absent"
    THEN [hasMCPServer |-> FALSE,
          reason |-> "task-master-ai not found in configured MCP servers",
          hasConfig |-> TRUE]
    ELSE IF m.entry = "null"
    \* config.command on a null config throws; the outer catch answers
    THEN [hasMCPServer |-> FALSE,
          reason |-> "Error checking MCP config",
          hasConfig |-> FALSE]
    ELSE [hasMCPServer |-> TRUE,
          isConfigured |-> (m.command \/ m.url),
          type |-> IF m.command THEN "stdio"
                   ELSE IF m.url THEN "http" ELSE "unknown"]

(***************************************************************************)
(* The status derivation of the two detect routes.                         *)
(***************************************************************************)
DetermineStatusAlwaysTaskmaster(taskMasterResult, mcpResult) ==
    IF BoolField(taskMasterResult, "hasTaskmaster")
    THEN IF BoolField(mcpResult, "hasMCPServer") /\ BoolField(mcpResult, "isConfigured")
         THEN "fully-configured"
         ELSE "taskmaster-only"
    ELSE IF BoolField(mcpResult, "hasMCPServer") /\ BoolField(mcpResult, "isConfigured")
         THEN "mcp-only"
         ELSE "not-configured"

DetermineStatus(taskMasterResult, mcpResult) ==
    IF BoolField(taskMasterResult, "hasTaskmaster")
       /\ BoolField(taskMasterResult, "hasEssentialFiles")
    THEN IF BoolField(mcpResult, "hasMCPServer") /\ BoolField(mcpResult, "isConfigured")
         THEN "fully-configured"
         ELSE "taskmaster-only"
    ELSE IF BoolField(mcpResult, "hasMCPServer") /\ BoolField(mcpResult, "isConfigured")
         THEN "mcp-only"
         ELSE "not-configured"

\* broadcastTaskMasterProjectUpdate: nothing is sent without wss or projectName
broadcastTaskMasterProjectUpdate(wss, projectName, taskMasterData) ==
    IF ~wss \/ projectName = ""
    THEN NoMsg
    ELSE [type |-> "taskmaster-project-updated",
          projectName |-> projectName,
          taskMasterData |-> taskMasterData]

ProjectNames == {"p1", "p2"}

\* extractProjectDirectory / access of the project path, as one request sees it
DirObs == {"ok", "unresolvable", "inaccessible"}

(***************************************************************************)
(* GET /detect/:projectName                                                *)
(***************************************************************************)
DetectResponse(projectName, dir, o, m) ==
    IF dir = "unresolvable"
    THEN [op |-> "detect", code |-> 404, error |-> "Project path not found",
          projectName |-> projectName]
    ELSE IF dir = "inaccessible"
    THEN [op |-> "detect", code |-> 404, error |-> "Project path not accessible",
          projectName |-> projectName]
    ELSE [op |-> "detect", code |-> 200,
          projectName |-> projectName,
          status |-> DetermineStatus(detectTaskMasterFolder(o),
                                     detectTaskMasterMCPServer(m)),
          taskmaster |-> detectTaskMasterFolder(o),
          mcp |-> detectTaskMasterMCPServer(m)]

Detect ==
    /\ pc = "idle"
    /\ \E projectName \in ProjectNames, dir \in DirObs, o \in FolderObs,
          m \in McpObs, wss \in BOOLEAN :
        /\ req' = [op |-> "detect", projectName |-> projectName, dir |-> dir,
                   fs |-> o, mcpConfig |-> m, wss |-> wss]
        /\ resp' = DetectResponse(projectName, dir, o, m)
        /\ broadcast' = IF dir = "ok" /\ wss
                        THEN broadcastTaskMasterProjectUpdate(
                                 wss, projectName, detectTaskMasterFolder(o))
                        ELSE NoMsg
    /\ pc' = "done"
    /\ UNCHANGED <<previous, templateVars, concurrentVars, cliVars, settingsVars,
                   fanoutVars, prdVars, initVars, wizardVars, mcpVars>>

(***************************************************************************)
(* GET /detect-all                                                         *)
(*   a project of getProjects(): whether it carries fullPath, whether      *)
(*   extractProjectDirectory resolves it, and what detection finds         *)
(***************************************************************************)
ProjectObs ==
    {[fullPath |-> TRUE, dir |-> "ok", fs |-> o] : o \in FolderObsOver({SampleDoc})}
    \cup {[fullPath |-> FALSE, dir |-> "ok", fs |-> o] :
             o \in FolderObsOver({SampleDoc})}
    \cup {[fullPath |-> FALSE, dir |-> "unresolvable",
           fs |-> [folder |-> "missing", tasks |-> FALSE, config |-> FALSE,
                   content |-> "none", doc |-> Null]]}

DetectAllProject(p, m) ==
    IF ~p.fullPath /\ p.dir = "unresolvable"
    THEN [status |-> "error", error |-> "Failed to extract project directory"]
    ELSE [status |-> DetermineStatus(detectTaskMasterFolder(p.fs),
                                     detectTaskMasterMCPServer(m)),
          taskmaster |-> detectTaskMasterFolder(p.fs),
          mcp |-> detectTaskMasterMCPServer(m)]

CountStatus(results, s) ==
    Cardinality({i \in DOMAIN results : results[i].status = s})

DetectAllResponse(projects, m) ==
    LET results == [i \in DOMAIN projects |-> DetectAllProject(projects[i], m)]
    IN  [op |-> "detect-all", code |-> 200,
         projects |-> results,
         summary |-> [total |-> Len(results),
                      fullyConfigured |-> CountStatus(results, "fully-configured"),
                      taskmasterOnly |-> CountStatus(results, "taskmaster-only"),
                      mcpOnly |-> CountStatus(results, "mcp-only"),
                      notConfigured |-> CountStatus(results, "not-configured"),
                      errors |-> CountStatus(results, "error")]]

DetectAll ==
    /\ pc = "idle"
    /\ \/ \E projects \in SeqsUpTo(ProjectObs, MaxProjects), m \in McpObs :
            /\ req' = [op |-> "detect-all", projects |-> projects, mcpConfig |-> m]
            /\ resp' = DetectAllResponse(projects, m)
       \/ \* getProjects() rejects: the outer catch answers 500
          /\ req' = [op |-> "detect-all", projects |-> <<>>, failed |-> TRUE]
          /\ resp' = [op |-> "detect-all", code |-> 500,
                      error |-> "Failed to detect TaskMaster configuration for projects"]
    /\ pc' = "done"
    /\ broadcast' = NoMsg
    /\ UNCHANGED <<previous, templateVars, concurrentVars, cliVars, settingsVars,
                   fanoutVars, prdVars, initVars, wizardVars, mcpVars>>

(***************************************************************************)
(* TaskMasterStatus (client): the overall status shown for currentProject  *)
(***************************************************************************)
OverallStatus(taskmaster, mcpServerStatus) ==
    LET mcpConfigured == BoolField(mcpServerStatus, "hasMCPServer")
                         /\ BoolField(mcpServerStatus, "isConfigured")
        projectConfigured == BoolField(taskmaster, "hasTaskmaster")
    IN  IF projectConfigured /\ mcpConfigured THEN "fully-configured"
        ELSE IF projectConfigured THEN "taskmaster-only"
        ELSE IF mcpConfigured THEN "mcp-only"
        ELSE "not-configured"

\* currentProject?.taskmaster?.metadata?.<field> || 0
MetadataCount(taskmaster, field) ==
    IF "metadata" \in DOMAIN taskmaster /\ field \in DOMAIN taskmaster.metadata
    THEN taskmaster.metadata[field]
    ELSE 0

\* the progress text: nothing unless the project is configured, the
\* percentage only when taskCount > 0
TaskProgress(taskmaster) ==
    LET projectConfigured == BoolField(taskmaster, "hasTaskmaster")
        taskCount == MetadataCount(taskmaster, "taskCount")
        completedCount == MetadataCount(taskmaster, "completed")
    IN  IF ~projectConfigured THEN [shown |-> FALSE]
        ELSE IF taskCount > 0
        THEN [shown |-> TRUE, completedCount |-> completedCount,
              taskCount |-> taskCount, percentShown |-> TRUE,
              percent |-> MathRound(completedCount * 100, taskCount)]
        ELSE [shown |-> TRUE, completedCount |-> completedCount,
              taskCount |-> taskCount, percentShown |-> FALSE]

TaskMasterStatus ==
    /\ pc = "idle"
    /\ \E o \in FolderObs, m \in McpObs,
          view \in {"loading", "error", "no-project", "status"} :
        /\ req' = [op |-> "render", fs |-> o, mcpConfig |-> m, view |-> view]
        /\ resp' = IF view = "status"
                   THEN [op |-> "render", view |-> "status",
                         overallStatus |->
                             OverallStatus(detectTaskMasterFolder(o),
                                           detectTaskMasterMCPServer(m)),
                         progress |-> TaskProgress(detectTaskMasterFolder(o)),
                         taskmaster |-> detectTaskMasterFolder(o),
                         mcp |-> detectTaskMasterMCPServer(m)]
                   ELSE [op |-> "render", view |-> view]
    /\ pc' = "done"
    /\ broadcast' = NoMsg
    /\ UNCHANGED <<previous, templateVars, concurrentVars, cliVars, settingsVars,
                   fanoutVars, prdVars, initVars, wizardVars, mcpVars>>

\* TaskIndicator.getIndicatorConfig: the label shown for a status value
getIndicatorConfig(status) ==
    CASE status = "fully-configured" -> "TaskMaster Ready"
      [] status = "taskmaster-only" -> "TaskMaster Init"
      [] status = "mcp-only" -> "MCP Ready"
      [] OTHER -> "No TaskMaster"

(***************************************************************************)
(* GET /tasks/:projectName: resolution of the task list                    *)
(***************************************************************************)
Threw == [threw |-> TRUE]

RECURSIVE FindFirstTag(_, _)
\* Object.keys(tasksData).find(key => tasksData[key].tasks && Array.isArray(...))
FindFirstTag(tasksData, i) ==
    IF i > Len(ObjectKeys(tasksData))
    THEN [threw |-> FALSE, found |-> FALSE]
    ELSE LET key == ObjectKeys(tasksData)[i]
             v == Prop(tasksData, key)
         IN  IF Throws(v) THEN [threw |-> TRUE, found |-> FALSE]
             ELSE IF Truthy(Prop(v, "tasks")) /\ IsArray(Prop(v, "tasks"))
             THEN [threw |-> FALSE, found |-> TRUE, key |-> key]
             ELSE FindFirstTag(tasksData, i + 1)

ResolveTasks(tasksData) ==
    IF IsArray(tasksData)
    THEN [threw |-> FALSE, tasks |-> tasksData, currentTag |-> "master"]
    ELSE IF Throws(tasksData) THEN Threw
    ELSE IF Truthy(Prop(tasksData, "tasks"))
    THEN [threw |-> FALSE, tasks |-> Prop(tasksData, "tasks"),
          currentTag |-> "master"]
    ELSE IF Truthy(Prop(tasksData, "master"))
            /\ Truthy(Prop(Prop(tasksData, "master"), "tasks"))
    THEN [threw |-> FALSE, tasks |-> Prop(Prop(tasksData, "master"), "tasks"),
          currentTag |-> "master"]
    ELSE LET ft == FindFirstTag(tasksData, 1)
         IN  IF ft.threw THEN Threw
             ELSE IF ft.found
             THEN [threw |-> FALSE,
                   tasks |-> Prop(Prop(tasksData, ft.key), "tasks"),
                   currentTag |-> ft.key]
             ELSE [threw |-> FALSE, tasks |-> List(<<>>),
                   currentTag |-> "master"]

(***************************************************************************)
(* GET /tasks/:projectName: the fields of an output task                   *)
(***************************************************************************)
TransformTaskNoFallback(task, now) ==
    [id |-> Prop(task, "id"),
     title |-> Prop(task, "title"),
     description |-> Prop(task, "description"),
     status |-> Prop(task, "status"),
     priority |-> Prop(task, "priority"),
     dependencies |-> Prop(task, "dependencies"),
     createdAt |-> Or(Prop(task, "createdAt"), Or(Prop(task, "created"), Str(now))),
     updatedAt |-> Or(Prop(task, "updatedAt"), Or(Prop(task, "updated"), Str(now))),
     details |-> Prop(task, "details"),
     testStrategy |-> Or(Prop(task, "testStrategy"), Prop(task, "test_strategy")),
     subtasks |-> Prop(task, "subtasks")]

TransformTask(task, now) ==
    [id |-> Prop(task, "id"),
     title |-> Or(Prop(task, "title"), Str("Untitled Task")),
     description |-> Or(Prop(task, "description"), Str("")),
     status |-> Or(Prop(task, "status"), Str("pending")),
     priority |-> Or(Prop(task, "priority"), Str("medium")),
     dependencies |-> Or(Prop(task, "dependencies"), List(<<>>)),
     createdAt |-> Or(Prop(task, "createdAt"), Or(Prop(task, "created"), Str(now))),
     updatedAt |-> Or(Prop(task, "updatedAt"), Or(Prop(task, "updated"), Str(now))),
     details |-> Or(Prop(task, "details"), Str("")),
     testStrategy |-> Or(Prop(task, "testStrategy"),
                         Or(Prop(task, "test_strategy"), Str(""))),
     subtasks |-> Or(Prop(task, "subtasks"), List(<<>>))]

FixedStatuses ==
    {"pending", "in-progress", "done", "review", "deferred", "cancelled"}

\* transformedTasks.filter(t => t.status === s).length
CountByStatus(transformedTasks, s) ==
    Cardinality({i \in DOMAIN transformedTasks :
                    transformedTasks[i].status = Str(s)})

TasksByStatusSeenOnly(transformedTasks) ==
    [s \in {x \in FixedStatuses : CountByStatus(transformedTasks, x) > 0} |->
        CountByStatus(transformedTasks, s)]

TasksByStatus(transformedTasks) ==
    [s \in FixedStatuses |-> CountByStatus(transformedTasks, s)]

ParseFailed ==
    [op |-> "tasks", code |-> 500, error |-> "Failed to parse tasks file"]

\* the response for a tasks.json that was read and parsed
NormalizeTasks(tasksData, now) ==
    LET r == ResolveTasks(tasksData)
    IN  IF r.threw THEN ParseFailed
        \* tasks.map is not a function
        ELSE IF ~IsArray(r.tasks) THEN ParseFailed
        \* task.id of a null element
        ELSE IF \E i \in DOMAIN r.tasks.l : Throws(r.tasks.l[i]) THEN ParseFailed
        ELSE LET transformedTasks ==
                     [i \in DOMAIN r.tasks.l |-> TransformTask(r.tasks.l[i], now)]
             IN  [op |-> "tasks", code |-> 200,
                  tasks |-> transformedTasks,
                  currentTag |-> r.currentTag,
                  totalTasks |-> Len(transformedTasks),
                  tasksByStatus |-> TasksByStatus(transformedTasks)]

TasksResponse(dir, file, tasksData, now) ==
    IF dir = "unresolvable"
    THEN [op |-> "tasks", code |-> 404, error |-> "Project not found"]
    ELSE IF file = "missing"
    THEN [op |-> "tasks", code |-> 200, tasks |-> <<>>,
          message |-> "No tasks.json file found"]
    ELSE IF file = "malformed" THEN ParseFailed
    ELSE NormalizeTasks(tasksData, now)

\* tasks.json was read and parsed into tasksData
ReadTasks(tasksData, now) ==
    /\ req' = [op |-> "tasks", dir |-> "ok", file |-> "parsed",
               doc |-> tasksData, now |-> now]
    /\ resp' = TasksResponse("ok", "parsed", tasksData, now)

GetTasks ==
    /\ pc = "idle"
    /\ \/ \E dir \in {"ok", "unresolvable"}, file \in {"missing", "malformed"} :
            /\ req' = [op |-> "tasks", dir |-> dir, file |-> file]
            /\ resp' = TasksResponse(dir, file, Null, "t1")
       \/ \E tasksData \in PlainDocs, now \in Clock : ReadTasks(tasksData, now)
       \/ \E ks \in KeySeqs, tasksValue \in TasksValues(MaxTasks),
             masterValue \in TagValues, tagValue \in TagValues, now \in Clock :
            ReadTasks(ObjectDoc(ks, tasksValue, masterValue, tagValue), now)
    /\ pc' = "done"
    /\ broadcast' = NoMsg
    /\ UNCHANGED <<previous, templateVars, concurrentVars, cliVars, settingsVars,
                   fanoutVars, prdVars, initVars, wizardVars, mcpVars>>

(***************************************************************************)
(* Template text: a string is the sequence of its characters.              *)
(***************************************************************************)
Alphabet == {"[", "]", "a", "1"}

ValueAlphabet == {"x", "$", "&"}

Templates == SeqsUpTo(Alphabet, MaxLen)

Values == SeqsUpTo(ValueAlphabet, MaxValueLen)

NoTemplate == [id |-> "none", content |-> <<>>]

\* the ids GET /prd-templates offers (two of them), and the ids
\* getAvailableTemplates knows
TemplateIds == {"web-app", "api"}

AvailableTemplateIds == {"web-app"}

\* the text getAvailableTemplates holds: a literal of its own, written apart
\* from the text GET /prd-templates lists under the same id
AvailableText == <<"[", "a", "]", "1">>

getAvailableTemplates == {[id |-> "web-app", content |-> AvailableText]}

RECURSIVE MatchPlaceholders(_, _)
\* content.match(/\[([^\]]+)\]/g): the matches from position i on, left to
\* right, each starting at a "[" followed by one or more characters other
\* than "]" and then "]"; the search resumes after the match
MatchPlaceholders(content, i) ==
    IF i > Len(content) THEN <<>>
    ELSE IF /\ content[i] = "["
            /\ i + 1 <= Len(content)
            /\ content[i + 1] # "]"
            /\ \E j \in (i + 2)..Len(content) : content[j] = "]"
    THEN LET j == CHOOSE j \in (i + 2)..Len(content) :
                      /\ content[j] = "]"
                      /\ \A k \in (i + 2)..(j - 1) : content[k] # "]"
         IN  <<SubSeq(content, i, j)>> \o MatchPlaceholders(content, j + 1)
    ELSE MatchPlaceholders(content, i + 1)

\* p.slice(1, -1)
Slice(p) == SubSeq(p, 2, Len(p) - 1)

RECURSIVE Unique(_)
\* [...new Set(names)]: each name once, at its first position
Unique(names) ==
    IF names = <<>> THEN <<>>
    ELSE LET rest == Unique(SubSeq(names, 1, Len(names) - 1))
             last == names[Len(names)]
         IN  IF \E i \in DOMAIN rest : rest[i] = last
             THEN rest
             ELSE Append(rest, last)

DigitChars == {"0", "1", "2", "3", "4", "5", "6", "7", "8", "9"}

DigitVal(c) ==
    CASE c = "0" -> 0 [] c = "1" -> 1 [] c = "2" -> 2 [] c = "3" -> 3
      [] c = "4" -> 4 [] c = "5" -> 5 [] c = "6" -> 6 [] c = "7" -> 7
      [] c = "8" -> 8 [] c = "9" -> 9

\* a property name that is a canonical array index ("0", "7", "11")
IsArrayIndex(name) ==
    /\ Len(name) > 0
    /\ \A i \in DOMAIN name : name[i] \in DigitChars
    /\ (Len(name) > 1 => name[1] # "0")

RECURSIVE ToInt(_)
ToInt(name) ==
    IF name = <<>> THEN 0
    ELSE 10 * ToInt(SubSeq(name, 1, Len(name) - 1)) + DigitVal(name[Len(name)])

RECURSIVE Ascending(_)
\* the index names of a set, in ascending numeric order
Ascending(S) ==
    IF S = {} THEN <<>>
    ELSE LET m == CHOOSE x \in S : \A y \in S : ToInt(x) <= ToInt(y)
         IN  <<m>> \o Ascending(S \ {m})

\* The own keys of an object whose properties were created in the order
\* `created`, as Object.keys / Object.entries enumerate them: array-index
\* names first in ascending order, then the other names in creation order
OwnKeys(created) ==
    Ascending({created[i] : i \in {k \in DOMAIN created : IsArrayIndex(created[k])}})
    \o SelectSeq(created, LAMBDA k : ~IsArrayIndex(k))

\* initialCustomizations, as the sequence of its entries
InitialCustomizations(content) ==
    LET placeholders == MatchPlaceholders(content, 1)
        uniquePlaceholders ==
            Unique([i \in DOMAIN placeholders |-> Slice(placeholders[i])])
        keys == OwnKeys(uniquePlaceholders)
    IN  [i \in DOMAIN keys |-> <<keys[i], <<>> >>]

(***************************************************************************)
(* TemplateSelector (client)                                               *)
(***************************************************************************)
handleSelectTemplate ==
    /\ pc = "idle"
    /\ step = "select"
    /\ \E id \in TemplateIds, content \in Templates :
        /\ selectedTemplate' = [id |-> id, content |-> content]
        /\ customizations' = InitialCustomizations(content)
        /\ req' = [op |-> "select"]
    /\ step' = "customize"
    /\ UNCHANGED <<pc, resp, broadcast, previous, concurrentVars, cliVars, settingsVars,
                   fanoutVars, prdVars, initVars, wizardVars, mcpVars>>

\* onChange of one customization field: {...prev, [key]: value}
setCustomization ==
    /\ pc = "idle"
    /\ step = "customize"
    /\ \E i \in DOMAIN customizations, value \in Values :
        /\ customizations[i][2] # value
        /\ customizations' = [customizations EXCEPT ![i] = <<customizations[i][1], value>>]
    /\ req' = [op |-> "edit"]
    /\ UNCHANGED <<pc, resp, broadcast, previous, selectedTemplate, step,
                   concurrentVars, cliVars, settingsVars, fanoutVars, prdVars, initVars,
                   wizardVars, mcpVars>>

(***************************************************************************)
(* POST /apply-template/:projectName: placeholder substitution             *)
(***************************************************************************)
EscapeClass == {".", "*", "+", "?", "^", "$", "{", "}", "(", ")", "|", "[", "\\"}

RECURSIVE EscapeRegExp(_, _)
\* placeholder.replace(/[.*+?^${}()|[\\]\\\\]/g, '\\\\$&'): the expression
\* matches one character of EscapeClass followed by two backslashes and "]",
\* and puts two backslashes before each match
EscapeRegExp(p, i) ==
    IF i > Len(p) THEN <<>>
    ELSE IF /\ i + 3 <= Len(p)
            /\ p[i] \in EscapeClass
            /\ p[i + 1] = "\\"
            /\ p[i + 2] = "\\"
            /\ p[i + 3] = "]"
    THEN <<"\\", "\\">> \o SubSeq(p, i, i + 3) \o EscapeRegExp(p, i + 4)
    ELSE <<p[i]>> \o EscapeRegExp(p, i + 1)

\* new RegExp(pattern, 'g') for a pattern "[" chars "]" whose chars hold no
\* "]", "\", "^" or "-": a character class, one character per match
PatternClass(pattern) == {pattern[i] : i \in 2..(Len(pattern) - 1)}

RECURSIVE Expand(_, _, _)
\* the replacement text for one match (GetSubstitution): "$$" stands for "$",
\* "$&" for the matched text; any other character stands for itself
Expand(value, matched, i) ==
    IF i > Len(value) THEN <<>>
    ELSE IF value[i] = "$" /\ i + 1 <= Len(value) /\ value[i + 1] = "$"
    THEN <<"$">> \o Expand(value, matched, i + 2)
    ELSE IF value[i] = "$" /\ i + 1 <= Len(value) /\ value[i + 1] = "&"
    THEN matched \o Expand(value, matched, i + 2)
    ELSE <<value[i]>> \o Expand(value, matched, i + 1)

RECURSIVE ReplaceGlobal(_, _, _, _)
\* content.replace(regexp, value) from position i on; the result carries the
\* new text and the text inserted at each match
ReplaceGlobal(content, class, value, i) ==
    IF i > Len(content) THEN [text |-> <<>>, inserted |-> <<>>]
    ELSE LET rest == ReplaceGlobal(content, class, value, i + 1)
         IN  IF content[i] \in class
             THEN LET ins == Expand(value, <<content[i]>>, 1)
                  IN  [text |-> ins \o rest.text,
                       inserted |-> <<[value |-> value, text |-> ins]>>
                                    \o rest.inserted]
             ELSE [text |-> <<content[i]>> \o rest.text,
                   inserted |-> rest.inserted]

RECURSIVE ApplyCustomizations(_, _, _)
\* for (const [key, value] of Object.entries(customizations)) ...
ApplyCustomizations(content, entries, n) ==
    IF n = 0 THEN [text |-> content, inserted |-> <<>>]
    ELSE LET before == ApplyCustomizations(content, entries, n - 1)
             placeholder == <<"[">> \o entries[n][1] \o <<"]">>
             r == ReplaceGlobal(before.text,
                                PatternClass(EscapeRegExp(placeholder, 1)),
                                entries[n][2], 1)
         IN  [text |-> r.text, inserted |-> before.inserted \o r.inserted]

ApplyTemplateResponse(outcome, template, entries) ==
    IF outcome = "project-not-found"
    THEN [op |-> "apply", code |-> 404, error |-> "Project not found"]
    ELSE IF template.id \notin AvailableTemplateIds
    THEN [op |-> "apply", code |-> 404, error |-> "Template not found"]
    ELSE LET found == CHOOSE t \in getAvailableTemplates : t.id = template.id
             r == ApplyCustomizations(found.content, entries, Len(entries))
         IN  IF outcome = "write-failed"
             THEN [op |-> "apply", code |-> 500,
                   error |-> "Failed to write PRD template"]
             ELSE [op |-> "apply", code |-> 200, templateId |-> template.id,
                   source |-> found.content,
                   content |-> r.text, inserted |-> r.inserted]

\* handleApplyTemplate: POST /apply-template with the customizations, then
\* POST /parse-prd; the step becomes 'generate' when both answer ok
handleApplyTemplate ==
    /\ pc = "idle"
    /\ step = "customize"
    /\ \E outcome \in {"ok", "project-not-found", "write-failed"},
          parseOk \in BOOLEAN :
        /\ (outcome # "ok" => parseOk)
        /\ resp' = ApplyTemplateResponse(outcome, selectedTemplate, customizations)
        /\ step' = IF resp'.code = 200 /\ parseOk THEN "generate" ELSE "customize"
    /\ req' = [op |-> "apply"]
    /\ pc' = "done"
    /\ UNCHANGED <<broadcast, previous, selectedTemplate, customizations,
                   concurrentVars, cliVars, settingsVars, fanoutVars, prdVars, initVars,
                   wizardVars, mcpVars>>

\* onTemplateApplied: the selector is closed and its state is dropped
onTemplateApplied ==
    /\ pc = "idle"
    /\ step = "generate"
    /\ step' = "select"
    /\ selectedTemplate' = NoTemplate
    /\ customizations' = <<>>
    /\ UNCHANGED <<pc, req, resp, broadcast, previous, concurrentVars, cliVars,
                   settingsVars, fanoutVars, prdVars, initVars, wizardVars, mcpVars>>

(***************************************************************************)
(* The response has been sent; the server waits for the next request.      *)
(***************************************************************************)
\* The same GET request is made once more, the files and the configuration
\* being what they were; the first answer is kept for comparison.
Repeat ==
    /\ pc = "done"
    /\ req.op \in {"tasks", "detect"}
    /\ previous' = resp
    /\ \/ /\ req.op = "tasks"
          /\ req.file = "parsed"
          /\ \E now \in Clock :
                /\ req' = [req EXCEPT !.now = now]
                /\ resp' = TasksResponse(req.dir, req.file, req.doc, now)
          /\ broadcast' = NoMsg
       \/ /\ req.op = "tasks"
          /\ req.file # "parsed"
          /\ req' = req
          /\ resp' = TasksResponse(req.dir, req.file, Null, "t1")
          /\ broadcast' = NoMsg
       \/ /\ req.op = "detect"
          /\ req' = req
          /\ resp' = DetectResponse(req.projectName, req.dir, req.fs, req.mcpConfig)
          /\ broadcast' = IF req.dir = "ok" /\ req.wss
                          THEN broadcastTaskMasterProjectUpdate(
                                   req.wss, req.projectName,
                                   detectTaskMasterFolder(req.fs))
                          ELSE NoMsg
    /\ pc' = "repeated"
    /\ UNCHANGED <<templateVars, concurrentVars, cliVars, settingsVars, fanoutVars,
                   prdVars, initVars, wizardVars, mcpVars>>

NextRequest ==
    /\ pc \in {"done", "repeated"}
    /\ pc' = "idle"
    /\ req' = NoReq
    /\ resp' = NoResp
    /\ broadcast' = NoMsg
    /\ previous' = NoResp
    /\ UNCHANGED <<templateVars, concurrentVars, cliVars, settingsVars, fanoutVars,
                   prdVars, initVars, wizardVars, mcpVars>>

(***************************************************************************)
(* Simultaneous GET /detect/:projectName requests for one project.         *)
(*   Each invocation of the handler runs to its next await and yields, so  *)
(*   the steps of different requests interleave.  world is what the disk   *)
(*   and the configuration hold; no step changes it.                       *)
(***************************************************************************)
MaxRequests == 2

Requests == 1 .. MaxRequests

\* a local of the handler that has no value yet
Pending == [pending |-> TRUE]

NoLocals == [projectPath |-> "unset", taskMasterResult |-> Pending,
             mcpResult |-> Pending]

Worlds ==
    [projectName : {"p1"}, dir : DirObs, fs : FolderObsOver({SampleDoc}),
     mcpConfig : McpObs, wss : BOOLEAN]

\* where the handler invocation of request r keeps its variables: every
\* invocation has its own (let projectPath, const [taskMasterResult, mcpResult])
SharedSlot(r) == 1

Slot(r) == r

\* the request reaches the handler
ArriveDetect ==
    \E r \in Requests :
        /\ hpc[r] = "idle"
        /\ hpc' = [hpc EXCEPT ![r] = "resolve"]
        /\ locals' = [locals EXCEPT ![Slot(r)] = NoLocals]
        /\ UNCHANGED <<world, awaiting, responses, sent>>
        /\ UNCHANGED <<requestVars, templateVars, cliVars, settingsVars, fanoutVars,
                       prdVars, initVars, wizardVars, mcpVars>>

\* await extractProjectDirectory(projectName)
ResolveDirectory ==
    \E r \in Requests :
        /\ hpc[r] = "resolve"
        /\ IF world.dir = "unresolvable"
           THEN /\ responses' = [responses EXCEPT ![r] =
                     [op |-> "detect", code |-> 404,
                      error |-> "Project path not found",
                      projectName |-> world.projectName]]
                /\ hpc' = [hpc EXCEPT ![r] = "done"]
                /\ UNCHANGED locals
           ELSE /\ locals' = [locals EXCEPT ![Slot(r)].projectPath = "path"]
                /\ hpc' = [hpc EXCEPT ![r] = "access"]
                /\ UNCHANGED responses
        /\ UNCHANGED <<world, awaiting, sent>>
        /\ UNCHANGED <<requestVars, templateVars, cliVars, settingsVars, fanoutVars,
                       prdVars, initVars, wizardVars, mcpVars>>

\* await fsPromises.access(projectPath, R_OK), then both detections start
AccessDirectory ==
    \E r \in Requests :
        /\ hpc[r] = "access"
        /\ IF world.dir = "inaccessible"
           THEN /\ responses' = [responses EXCEPT ![r] =
                     [op |-> "detect", code |-> 404,
                      error |-> "Project path not accessible",
                      projectName |-> world.projectName]]
                /\ hpc' = [hpc EXCEPT ![r] = "done"]
                /\ UNCHANGED awaiting
           ELSE /\ hpc' = [hpc EXCEPT ![r] = "detect"]
                /\ awaiting' = [awaiting EXCEPT ![r] = {"folder", "mcp"}]
                /\ UNCHANGED responses
        /\ UNCHANGED <<world, locals, sent>>
        /\ UNCHANGED <<requestVars, templateVars, cliVars, settingsVars, fanoutVars,
                       prdVars, initVars, wizardVars, mcpVars>>

\* detectTaskMasterFolder(projectPath) settles
FolderDetected ==
    \E r \in Requests :
        /\ hpc[r] = "detect"
        /\ "folder" \in awaiting[r]
        /\ awaiting' = [awaiting EXCEPT ![r] = @ \ {"folder"}]
        /\ locals' = [locals EXCEPT ![Slot(r)].taskMasterResult =
                                        detectTaskMasterFolder(world.fs)]
        /\ UNCHANGED <<world, hpc, responses, sent>>
        /\ UNCHANGED <<requestVars, templateVars, cliVars, settingsVars, fanoutVars,
                       prdVars, initVars, wizardVars, mcpVars>>

\* detectTaskMasterMCPServer() settles
McpDetected ==
    \E r \in Requests :
        /\ hpc[r] = "detect"
        /\ "mcp" \in awaiting[r]
        /\ awaiting' = [awaiting EXCEPT ![r] = @ \ {"mcp"}]
        /\ locals' = [locals EXCEPT ![Slot(r)].mcpResult =
                                        detectTaskMasterMCPServer(world.mcpConfig)]
        /\ UNCHANGED <<world, hpc, responses, sent>>
        /\ UNCHANGED <<requestVars, templateVars, cliVars, settingsVars, fanoutVars,
                       prdVars, initVars, wizardVars, mcpVars>>

\* Promise.all has settled: the status, the broadcast and res.json
RespondDetect ==
    \E r \in Requests :
        /\ hpc[r] = "detect"
        /\ awaiting[r] = {}
        /\ LET l == locals[Slot(r)]
           IN  /\ responses' = [responses EXCEPT ![r] =
                     [op |-> "detect", code |-> 200,
                      projectName |-> world.projectName,
                      status |-> DetermineStatus(l.taskMasterResult, l.mcpResult),
                      taskmaster |-> l.taskMasterResult,
                      mcp |-> l.mcpResult]]
               /\ sent' = IF world.wss
                          THEN Append(sent, broadcastTaskMasterProjectUpdate(
                                   world.wss, world.projectName,
                                   l.taskMasterResult))
                          ELSE sent
        /\ hpc' = [hpc EXCEPT ![r] = "done"]
        /\ UNCHANGED <<world, awaiting, locals>>
        /\ UNCHANGED <<requestVars, templateVars, cliVars, settingsVars, fanoutVars,
                       prdVars, initVars, wizardVars, mcpVars>>

(***************************************************************************)
(* The routes that shell out to the task-master CLI:                       *)
(*   POST /init, POST /add-task, PUT /update-task, POST /parse-prd.        *)
(*   A handler checks its preconditions, spawns the child and returns; the *)
(*   answer is sent by the listener of the child's 'close' event.          *)
(***************************************************************************)
MaxFileVersions == 2

NoChild == [cmd |-> "none"]

\* exit codes of the child as 'close' reports them
ExitCodes == {0, 1}

TaskIds == {"1", "2.1"}

\* the fields the update-task handler reads from req.body
UpdateFields == {"title", "description", "status", "priority", "details"}

FieldValues(f) == IF f = "status" THEN {"", "done"} ELSE {"", "x"}

\* request bodies: any of the fields, each empty or not
Bodies ==
    UNION {{b \in [d -> {"", "x", "done"}] : \A f \in d : b[f] \in FieldValues(f)} :
           d \in SUBSET UpdateFields}

\* truthiness of a body field: present and not the empty string
Given(body, f) == f \in DOMAIN body /\ body[f] # ""

broadcastTaskMasterTasksUpdate(wss, projectName) ==
    IF ~wss \/ projectName = ""
    THEN NoMsg
    ELSE [type |-> "taskmaster-tasks-updated", projectName |-> projectName]

Response(code, text) == [code |-> code, text |-> text]

\* updates.push(...) in the order of the handler, then updates.join(', ')
PromptFields == <<"title", "description", "priority", "details">>

UpdatePrompt(body) ==
    LET Keep(f) == Given(body, f)
    IN  [i \in 1 .. Len(SelectSeq(PromptFields, Keep)) |->
            [field |-> SelectSeq(PromptFields, Keep)[i],
             value |-> body[SelectSeq(PromptFields, Keep)[i]]]]

\* the command line of the child that PUT /update-task spawns
UpdateTaskCommand(taskId, body) ==
    IF Given(body, "status") /\ Cardinality(DOMAIN body) = 1
    THEN [cmd |-> "set-status", id |-> taskId, status |-> body["status"]]
    ELSE [cmd |-> "update-task", id |-> taskId, prompt |-> UpdatePrompt(body)]

FailureText(route) ==
    CASE route = "init" -> "Failed to initialize TaskMaster"
      [] route = "add-task" -> "Failed to add task"
      [] route = "update-task" -> "Failed to update task"
      [] route = "parse-prd" -> "Failed to parse PRD"

SuccessText(route) ==
    CASE route = "init" -> "TaskMaster initialized successfully"
      [] route = "add-task" -> "Task added successfully"
      [] route = "update-task" -> "Task updated successfully"
      [] route = "parse-prd" -> "PRD parsed and tasks generated successfully"

\* what the 'close' listener broadcasts when the child exited with 0
CloseBroadcast(route, wss, projectName) ==
    IF ~wss THEN <<>>
    ELSE IF route = "init"
    THEN <<broadcastTaskMasterProjectUpdate(
               wss, projectName, [hasTaskmaster |-> TRUE, status |-> "initialized"])>>
    ELSE <<broadcastTaskMasterTasksUpdate(wss, projectName)>>

\* the 'close' listener with the branches exchanged
OnCloseBroadcastOnFailure(route, code, wss, projectName) ==
    IF code = 0
    THEN <<Response(200, SuccessText(route))>>
    ELSE CloseBroadcast(route, wss, projectName)
             \o <<Response(500, FailureText(route))>>

\* the 'close' listener: what it sends, in order
OnClose(route, code, wss, projectName) ==
    IF code = 0
    THEN CloseBroadcast(route, wss, projectName)
             \o <<Response(200, SuccessText(route))>>
    ELSE <<Response(500, FailureText(route))>>

Answer(r, response) ==
    /\ cliReq' = r
    /\ outbox' = <<response>>
    /\ cpc' = "responded"
    /\ child' = NoChild

SpawnChild(r, command) ==
    /\ cliReq' = r
    /\ outbox' = <<>>
    /\ cpc' = "spawned"
    /\ child' = command

CliRequest(route, projectName, dir, wss) ==
    [route |-> route, projectName |-> projectName, dir |-> dir, wss |-> wss,
     file |-> tasksFile]

\* POST /init/:projectName
InitProject ==
    /\ cpc = "idle"
    /\ \E projectName \in ProjectNames, dir \in {"ok", "unresolvable"},
          initialized \in BOOLEAN, wss \in BOOLEAN :
        LET r == CliRequest("init", projectName, dir, wss)
        IN  IF dir = "unresolvable"
            THEN Answer(r, Response(404, "Project not found"))
            ELSE IF initialized
            THEN Answer(r, Response(400, "TaskMaster already initialized"))
            ELSE SpawnChild(r, [cmd |-> "init"])
    /\ UNCHANGED tasksFile
    /\ UNCHANGED <<requestVars, templateVars, concurrentVars, settingsVars, fanoutVars,
                   prdVars, initVars, wizardVars, mcpVars>>

\* POST /add-task/:projectName
AddTask ==
    /\ cpc = "idle"
    /\ \E projectName \in ProjectNames, dir \in {"ok", "unresolvable"},
          prompt \in BOOLEAN, title \in BOOLEAN, description \in BOOLEAN,
          wss \in BOOLEAN :
        LET r == CliRequest("add-task", projectName, dir, wss)
        IN  IF ~prompt /\ (~title \/ ~description)
            THEN Answer(r, Response(400, "Missing required parameters"))
            ELSE IF dir = "unresolvable"
            THEN Answer(r, Response(404, "Project not found"))
            ELSE SpawnChild(r, [cmd |-> "add-task", research |-> prompt])
    /\ UNCHANGED tasksFile
    /\ UNCHANGED <<requestVars, templateVars, concurrentVars, settingsVars, fanoutVars,
                   prdVars, initVars, wizardVars, mcpVars>>

\* PUT /update-task/:projectName/:taskId
UpdateTask ==
    /\ cpc = "idle"
    /\ \E projectName \in ProjectNames, dir \in {"ok", "unresolvable"},
          taskId \in TaskIds, body \in Bodies, wss \in BOOLEAN :
        LET r == [route |-> "update-task", projectName |-> projectName,
                  dir |-> dir, wss |-> wss, file |-> tasksFile,
                  taskId |-> taskId, body |-> body]
        IN  IF dir = "unresolvable"
            THEN Answer(r, Response(404, "Project not found"))
            ELSE SpawnChild(r, UpdateTaskCommand(taskId, body))
    /\ UNCHANGED tasksFile
    /\ UNCHANGED <<requestVars, templateVars, concurrentVars, settingsVars, fanoutVars,
                   prdVars, initVars, wizardVars, mcpVars>>

\* POST /parse-prd/:projectName
ParsePrd ==
    /\ cpc = "idle"
    /\ \E projectName \in ProjectNames, dir \in {"ok", "unresolvable"},
          prdExists \in BOOLEAN, append \in BOOLEAN, wss \in BOOLEAN :
        LET r == CliRequest("parse-prd", projectName, dir, wss)
        IN  IF dir = "unresolvable"
            THEN Answer(r, Response(404, "Project not found"))
            ELSE IF ~prdExists
            THEN Answer(r, Response(404, "PRD file not found"))
            ELSE SpawnChild(r, [cmd |-> "parse-prd", append |-> append])
    /\ UNCHANGED tasksFile
    /\ UNCHANGED <<requestVars, templateVars, concurrentVars, settingsVars, fanoutVars,
                   prdVars, initVars, wizardVars, mcpVars>>

\* the child exits and its streams close: the 'close' listener runs.  A child
\* that exited with 0 may have rewritten tasks.json; the listener does not.
ChildCloses ==
    /\ cpc = "spawned"
    /\ \E code \in ExitCodes :
        /\ outbox' = OnClose(cliReq.route, code, cliReq.wss, cliReq.projectName)
        /\ child' = [cmd |-> "closed", code |-> code]
        /\ \/ UNCHANGED tasksFile
           \/ /\ code = 0
              /\ tasksFile < MaxFileVersions
              /\ tasksFile' = tasksFile + 1
    /\ cpc' = "responded"
    /\ UNCHANGED cliReq
    /\ UNCHANGED <<requestVars, templateVars, concurrentVars, settingsVars, fanoutVars,
                   prdVars, initVars, wizardVars, mcpVars>>

\* the child cannot be started (npx not found, cwd missing): the child emits
\* 'error'.  No handler listens for it, so the emit throws out of the event
\* loop, 'close' is never emitted and res is never used.
ChildFailsToStart ==
    /\ cpc = "spawned"
    /\ cpc' = "crashed"
    /\ child' = [cmd |-> "error"]
    /\ UNCHANGED <<cliReq, outbox, tasksFile>>
    /\ UNCHANGED <<requestVars, templateVars, concurrentVars, settingsVars, fanoutVars,
                   prdVars, initVars, wizardVars, mcpVars>>

NextCliRequest ==
    /\ cpc = "responded"
    /\ cpc' = "idle"
    /\ cliReq' = NoReq
    /\ child' = NoChild
    /\ outbox' = <<>>
    /\ UNCHANGED tasksFile
    /\ UNCHANGED <<requestVars, templateVars, concurrentVars, settingsVars, fanoutVars,
                   prdVars, initVars, wizardVars, mcpVars>>

\* no CLI request is being served
QuietCli ==
    /\ cliReq = NoReq
    /\ cpc = "idle"
    /\ child = NoChild
    /\ outbox = <<>>
    /\ tasksFile = 0

(***************************************************************************)
(* TasksSettingsProvider (useLocalStorage.jsx)                             *)
(*   storage is the 'tasks-enabled' item of localStorage.  The provider    *)
(*   renders, runs its effects, and a timer later asks the server whether  *)
(*   the CLI is installed.                                                 *)
(***************************************************************************)
\* localStorage.getItem of a key that is not stored
NoItem == "<null>"

JSONStringify(b) == IF b THEN "true" ELSE "false"

JSONParse(item) == item = "true"

JsBool(b) == [t |-> "bool", b |-> b]

\* checkTaskMasterInstallation()
Installations ==
    {[isInstalled |-> TRUE, version |-> v, reason |-> "none"] :
        v \in {"0.16.2", "unknown"}}
    \cup {[isInstalled |-> FALSE, version |-> "none", reason |-> r] :
        r \in {"TaskMaster CLI not found in PATH", "Error checking installation"}}

\* the body of GET /installation-status when it answers 200
InstallationStatusBody(installation, m) ==
    [success |-> TRUE,
     installation |-> installation,
     mcpServer |-> detectTaskMasterMCPServer(m),
     isReady |-> installation.isInstalled
                     /\ BoolField(detectTaskMasterMCPServer(m), "hasMCPServer")]

\* the provider's state after its first render
FirstRender ==
    /\ saved' = storage
    /\ tasksEnabled' = IF storage # NoItem THEN JSONParse(storage) ELSE TRUE
    /\ isTaskMasterInstalled' = Null
    /\ isTaskMasterReady' = Null
    /\ installationStatus' = Null
    /\ isCheckingInstallation' = TRUE

\* first render, then the effects of the mount in the order they are declared:
\* the save effect stores tasksEnabled, the second schedules checkInstallation
Mount ==
    /\ spc = "unmounted"
    /\ FirstRender
    /\ storage' = JSONStringify(tasksEnabled')
    /\ spc' = "mounted"
    /\ UNCHANGED <<requestVars, templateVars, concurrentVars, cliVars, fanoutVars,
                   prdVars, initVars, wizardVars, mcpVars>>

\* the timer fires: checkInstallation runs up to await api.get(...)
checkInstallation ==
    /\ spc = "mounted"
    /\ spc' = "checking"
    /\ UNCHANGED <<storage, saved, tasksEnabled, isTaskMasterInstalled,
                   isTaskMasterReady, installationStatus, isCheckingInstallation>>
    /\ UNCHANGED <<requestVars, templateVars, concurrentVars, cliVars, fanoutVars,
                   prdVars, initVars, wizardVars, mcpVars>>

\* setTasksEnabled(false) when the CLI is missing and nothing is stored
DisablesTasks(data, userEnabledTasks) ==
    ~data.installation.isInstalled /\ userEnabledTasks \in {NoItem, ""}

\* the answer arrives: the rest of checkInstallation, the render it causes and
\* the save effect of that render
InstallationChecked ==
    /\ spc = "checking"
    /\ \/ \E installation \in Installations, m \in McpObs :
            LET data == InstallationStatusBody(installation, m)
            IN  /\ installationStatus' = data
                /\ isTaskMasterInstalled' = JsBool(data.installation.isInstalled)
                /\ isTaskMasterReady' = JsBool(data.isReady)
                /\ tasksEnabled' = IF DisablesTasks(data, storage)
                                   THEN FALSE ELSE tasksEnabled
       \/ /\ isTaskMasterInstalled' = JsBool(FALSE)
          /\ isTaskMasterReady' = JsBool(FALSE)
          /\ UNCHANGED <<installationStatus, tasksEnabled>>
    /\ storage' = IF tasksEnabled' # tasksEnabled
                  THEN JSONStringify(tasksEnabled') ELSE storage
    /\ isCheckingInstallation' = FALSE
    /\ spc' = "checked"
    /\ UNCHANGED saved
    /\ UNCHANGED <<requestVars, templateVars, concurrentVars, cliVars, fanoutVars,
                   prdVars, initVars, wizardVars, mcpVars>>

\* toggleTasksEnabled, the render it causes and the save effect
toggleTasksEnabled ==
    /\ spc # "unmounted"
    /\ tasksEnabled' = ~tasksEnabled
    /\ storage' = JSONStringify(tasksEnabled')
    /\ UNCHANGED <<spc, saved, isTaskMasterInstalled, isTaskMasterReady,
                   installationStatus, isCheckingInstallation>>
    /\ UNCHANGED <<requestVars, templateVars, concurrentVars, cliVars, fanoutVars,
                   prdVars, initVars, wizardVars, mcpVars>>

\* the page is reloaded: the React state is gone, localStorage stays
Reload ==
    /\ spc # "unmounted"
    /\ spc' = "unmounted"
    /\ saved' = NoItem
    /\ tasksEnabled' = TRUE
    /\ isTaskMasterInstalled' = Null
    /\ isTaskMasterReady' = Null
    /\ installationStatus' = Null
    /\ isCheckingInstallation' = TRUE
    /\ UNCHANGED storage
    /\ UNCHANGED <<requestVars, templateVars, concurrentVars, cliVars, fanoutVars,
                   prdVars, initVars, wizardVars, mcpVars>>

\* the provider is not mounted
NoProvider ==
    /\ spc = "unmounted"
    /\ saved = NoItem
    /\ tasksEnabled = TRUE
    /\ isTaskMasterInstalled = Null
    /\ isTaskMasterReady = Null
    /\ installationStatus = Null
    /\ isCheckingInstallation = TRUE

(***************************************************************************)
(* The broadcast functions (part_002): one message to every open client.   *)
(*   A client is its readyState, whether its send throws, and what it has  *)
(*   received.                                                             *)
(***************************************************************************)
MaxClients == 2

\* WebSocket readyState: CONNECTING, OPEN, CLOSING, CLOSED
ReadyStates == 0 .. 3

OPEN == 1

Clients == [readyState : ReadyStates, throws : BOOLEAN, inbox : {<<>>}]

NoCall == [fn |-> "none"]

broadcastMCPStatusChange(wss, mcpStatus) ==
    IF ~wss
    THEN NoMsg
    ELSE [type |-> "taskmaster-mcp-status-changed", mcpStatus |-> mcpStatus]

broadcastTaskMasterUpdate(wss, updateType, data) ==
    IF ~wss \/ updateType = ""
    THEN NoMsg
    ELSE [type |-> "taskmaster-update", updateType |-> updateType, data |-> data]

\* client.send(JSON.stringify(message)) reaches the client
Receives(client) == client.readyState = OPEN /\ ~client.throws

\* the index of the first open client whose send throws
FirstThrower(cs) ==
    IF \E i \in 1 .. Len(cs) : cs[i].readyState = OPEN /\ cs[i].throws
    THEN CHOOSE i \in 1 .. Len(cs) :
            /\ cs[i].readyState = OPEN /\ cs[i].throws
            /\ \A j \in 1 .. i - 1 : ~(cs[j].readyState = OPEN /\ cs[j].throws)
    ELSE Len(cs) + 1

\* wss.clients.forEach without the try around send
SendToOpenClientsUncaught(cs, message) ==
    [clients |-> [i \in 1 .. Len(cs) |->
                    IF Receives(cs[i]) /\ i < FirstThrower(cs)
                    THEN [cs[i] EXCEPT !.inbox = Append(@, message)]
                    ELSE cs[i]],
     outcome |-> IF FirstThrower(cs) <= Len(cs) THEN "threw" ELSE "returned"]

\* wss.clients.forEach(client => { if (OPEN) try { send } catch { log } })
SendToOpenClients(cs, message) ==
    [clients |-> [i \in 1 .. Len(cs) |->
                    IF Receives(cs[i])
                    THEN [cs[i] EXCEPT !.inbox = Append(@, message)]
                    ELSE cs[i]],
     outcome |-> "returned"]

\* a broadcast function from its guard to its return
Broadcast(fn, message, wss, required) ==
    /\ fanCall = NoCall
    /\ LET sends == IF message = NoMsg
                    THEN [clients |-> clients, outcome |-> "returned"]
                    ELSE SendToOpenClients(clients, message)
       IN  /\ clients' = sends.clients
           /\ fanCall' = [fn |-> fn, message |-> message, wss |-> wss,
                          required |-> required, outcome |-> sends.outcome]

BroadcastProjectUpdate ==
    /\ \E wss \in BOOLEAN, projectName \in {"", "p1"} :
          Broadcast("broadcastTaskMasterProjectUpdate",
                    broadcastTaskMasterProjectUpdate(
                        wss, projectName, [hasTaskmaster |-> TRUE]),
                    wss, <<projectName>>)
    /\ UNCHANGED <<requestVars, templateVars, concurrentVars, cliVars, settingsVars,
                   prdVars, initVars, wizardVars, mcpVars>>

BroadcastTasksUpdate ==
    /\ \E wss \in BOOLEAN, projectName \in {"", "p1"} :
          Broadcast("broadcastTaskMasterTasksUpdate",
                    broadcastTaskMasterTasksUpdate(wss, projectName),
                    wss, <<projectName>>)
    /\ UNCHANGED <<requestVars, templateVars, concurrentVars, cliVars, settingsVars,
                   prdVars, initVars, wizardVars, mcpVars>>

BroadcastMCPStatusChange ==
    /\ \E wss \in BOOLEAN, m \in McpObs :
          Broadcast("broadcastMCPStatusChange",
                    broadcastMCPStatusChange(wss, detectTaskMasterMCPServer(m)),
                    wss, <<>>)
    /\ UNCHANGED <<requestVars, templateVars, concurrentVars, cliVars, settingsVars,
                   prdVars, initVars, wizardVars, mcpVars>>

BroadcastUpdate ==
    /\ \E wss \in BOOLEAN, updateType \in {"", "initialization"} :
          Broadcast("broadcastTaskMasterUpdate",
                    broadcastTaskMasterUpdate(wss, updateType, <<>>),
                    wss, <<updateType>>)
    /\ UNCHANGED <<requestVars, templateVars, concurrentVars, cliVars, settingsVars,
                   prdVars, initVars, wizardVars, mcpVars>>

\* the clients have read what they received
NextBroadcast ==
    /\ fanCall # NoCall
    /\ fanCall' = NoCall
    /\ clients' = [i \in 1 .. Len(clients) |-> [clients[i] EXCEPT !.inbox = <<>>]]
    /\ UNCHANGED <<requestVars, templateVars, concurrentVars, cliVars, settingsVars,
                   prdVars, initVars, wizardVars, mcpVars>>

\* no broadcast has been made
QuietSockets ==
    /\ clients = <<>>
    /\ fanCall = NoCall

(***************************************************************************)
(* The PRD endpoints and the files they touch.                             *)
(*   A fileName is the sequence of its '/'-separated segments; a route     *)
(*   parameter reaches the handler decoded, so it may hold several.        *)
(***************************************************************************)
MaxSegments == 2
MaxPrdLen == 2
MaxServers == 1

Segments == {"..", ".", "prd.txt", "notes.md", "..txt", "sub", "run.sh"}

FileNames == UNION {[1 .. n -> Segments] : n \in 1 .. MaxSegments}

\* fileName.match(/^[\w\-. ]+\.(txt|md)$/): one segment of word characters,
\* dashes, dots and spaces that ends in .txt or .md
MatchesFileNamePattern(fileName) ==
    /\ Len(fileName) = 1
    /\ fileName[1] \in {"prd.txt", "notes.md", "..txt"}

\* path.join: the segments are appended and '.' and '..' are resolved
RECURSIVE PathJoin(_, _)
PathJoin(base, segments) ==
    IF segments = <<>> THEN base
    ELSE IF Head(segments) = "." THEN PathJoin(base, Tail(segments))
    ELSE IF Head(segments) = ".."
    THEN PathJoin(IF base = <<>> THEN <<>> ELSE SubSeq(base, 1, Len(base) - 1),
                  Tail(segments))
    ELSE PathJoin(Append(base, Head(segments)), Tail(segments))

\* extractProjectDirectory(projectName)
ProjectPath == <<"home", "p1">>

DocsPath == PathJoin(ProjectPath, <<".taskmaster", "docs">>)

NoPrdReq == [route |-> "none"]

PrdAnswer(route, fileName, files, code) ==
    /\ prdReq' = [route |-> route, fileName |-> fileName]
    /\ accessed' = files
    /\ prdResp' = code

\* POST /prd/:projectName
SavePrd ==
    /\ prdReq = NoPrdReq
    /\ \E fileName \in FileNames, dir \in {"ok", "unresolvable"},
          written \in BOOLEAN :
        LET filePath == PathJoin(DocsPath, fileName)
        IN  IF ~MatchesFileNamePattern(fileName)
            THEN PrdAnswer("save", fileName, <<>>, 400)
            ELSE IF dir = "unresolvable"
            THEN PrdAnswer("save", fileName, <<>>, 404)
            ELSE IF ~written
            THEN PrdAnswer("save", fileName,
                           <<[op |-> "mkdir", path |-> DocsPath],
                             [op |-> "writeFile", path |-> filePath]>>, 500)
            ELSE PrdAnswer("save", fileName,
                           <<[op |-> "mkdir", path |-> DocsPath],
                             [op |-> "writeFile", path |-> filePath],
                             [op |-> "stat", path |-> filePath]>>, 200)
    /\ UNCHANGED <<requestVars, templateVars, concurrentVars, cliVars, settingsVars,
                   fanoutVars, initVars, wizardVars, mcpVars>>

\* GET /prd/:projectName/:fileName
ReadPrd ==
    /\ prdReq = NoPrdReq
    /\ \E fileName \in FileNames, dir \in {"ok", "unresolvable"},
          exists \in BOOLEAN :
        LET filePath == PathJoin(DocsPath, fileName)
        IN  IF dir = "unresolvable"
            THEN PrdAnswer("read", fileName, <<>>, 404)
            ELSE IF ~exists
            THEN PrdAnswer("read", fileName,
                           <<[op |-> "access", path |-> filePath]>>, 404)
            ELSE PrdAnswer("read", fileName,
                           <<[op |-> "access", path |-> filePath],
                             [op |-> "readFile", path |-> filePath],
                             [op |-> "stat", path |-> filePath]>>, 200)
    /\ UNCHANGED <<requestVars, templateVars, concurrentVars, cliVars, settingsVars,
                   fanoutVars, initVars, wizardVars, mcpVars>>

\* DELETE /prd/:projectName/:fileName
DeletePrd ==
    /\ prdReq = NoPrdReq
    /\ \E fileName \in FileNames, dir \in {"ok", "unresolvable"},
          exists \in BOOLEAN :
        LET filePath == PathJoin(DocsPath, fileName)
        IN  IF dir = "unresolvable"
            THEN PrdAnswer("delete", fileName, <<>>, 404)
            ELSE IF ~exists
            THEN PrdAnswer("delete", fileName,
                           <<[op |-> "access", path |-> filePath]>>, 404)
            ELSE PrdAnswer("delete", fileName,
                           <<[op |-> "access", path |-> filePath],
                             [op |-> "unlink", path |-> filePath]>>, 200)
    /\ UNCHANGED <<requestVars, templateVars, concurrentVars, cliVars, settingsVars,
                   fanoutVars, initVars, wizardVars, mcpVars>>

\* POST /parse-prd/:projectName up to the spawn: the file it looks for
ParsePrdFile ==
    /\ prdReq = NoPrdReq
    /\ \E fileName \in FileNames, dir \in {"ok", "unresolvable"},
          exists \in BOOLEAN :
        LET prdPath == PathJoin(DocsPath, fileName)
        IN  IF dir = "unresolvable"
            THEN PrdAnswer("parse-prd", fileName, <<>>, 404)
            ELSE IF ~exists
            THEN PrdAnswer("parse-prd", fileName,
                           <<[op |-> "access", path |-> prdPath]>>, 404)
            ELSE PrdAnswer("parse-prd", fileName,
                           <<[op |-> "access", path |-> prdPath],
                             [op |-> "parse-prd", path |-> prdPath]>>, 200)
    /\ UNCHANGED <<requestVars, templateVars, concurrentVars, cliVars, settingsVars,
                   fanoutVars, initVars, wizardVars, mcpVars>>

\* POST /apply-template/:projectName: the file it writes
ApplyTemplateFile ==
    /\ prdReq = NoPrdReq
    /\ \E fileName \in FileNames, dir \in {"ok", "unresolvable"},
          templateId \in TemplateIds, written \in BOOLEAN :
        LET filePath == PathJoin(DocsPath, fileName)
        IN  IF dir = "unresolvable" \/ templateId \notin AvailableTemplateIds
            THEN PrdAnswer("apply-template", fileName, <<>>, 404)
            ELSE PrdAnswer("apply-template", fileName,
                           <<[op |-> "mkdir", path |-> DocsPath],
                             [op |-> "writeFile", path |-> filePath]>>,
                           IF written THEN 200 ELSE 500)
    /\ UNCHANGED <<requestVars, templateVars, concurrentVars, cliVars, settingsVars,
                   fanoutVars, initVars, wizardVars, mcpVars>>

NextPrdRequest ==
    /\ prdReq # NoPrdReq
    /\ prdReq' = NoPrdReq
    /\ accessed' = <<>>
    /\ prdResp' = 0
    /\ UNCHANGED <<requestVars, templateVars, concurrentVars, cliVars, settingsVars,
                   fanoutVars, initVars, wizardVars, mcpVars>>

\* no PRD request is being served
QuietPrd ==
    /\ prdReq = NoPrdReq
    /\ accessed = <<>>
    /\ prdResp = 0

(***************************************************************************)
(* Simultaneous POST /init requests for one project.  A handler yields at  *)
(* each await; the init child it spawned creates <project>/.taskmaster     *)
(* some time after the spawn.                                              *)
(***************************************************************************)
\* the request reaches the handler
InitArrives ==
    \E r \in Requests :
        /\ ipc[r] = "idle"
        /\ ipc' = [ipc EXCEPT ![r] = "resolve"]
        /\ UNCHANGED <<dotTaskmaster, initDir, initAnswers>>
        /\ UNCHANGED <<requestVars, templateVars, concurrentVars, cliVars, settingsVars,
                       fanoutVars, prdVars, wizardVars, mcpVars>>

\* await extractProjectDirectory(projectName)
InitResolves ==
    \E r \in Requests :
        /\ ipc[r] = "resolve"
        /\ IF initDir = "unresolvable"
           THEN /\ ipc' = [ipc EXCEPT ![r] = "answered"]
                /\ initAnswers' = [initAnswers EXCEPT ![r] = 404]
           ELSE /\ ipc' = [ipc EXCEPT ![r] = "access"]
                /\ UNCHANGED initAnswers
        /\ UNCHANGED <<dotTaskmaster, initDir>>
        /\ UNCHANGED <<requestVars, templateVars, concurrentVars, cliVars, settingsVars,
                       fanoutVars, prdVars, wizardVars, mcpVars>>

\* await fsPromises.access(taskMasterPath): 400 when it exists, else the
\* init child is spawned
InitChecks ==
    \E r \in Requests :
        /\ ipc[r] = "access"
        /\ IF dotTaskmaster
           THEN /\ ipc' = [ipc EXCEPT ![r] = "answered"]
                /\ initAnswers' = [initAnswers EXCEPT ![r] = 400]
           ELSE /\ ipc' = [ipc EXCEPT ![r] = "spawned"]
                /\ UNCHANGED initAnswers
        /\ UNCHANGED <<dotTaskmaster, initDir>>
        /\ UNCHANGED <<requestVars, templateVars, concurrentVars, cliVars, settingsVars,
                       fanoutVars, prdVars, wizardVars, mcpVars>>

\* a running init child creates the .taskmaster directory
InitChildWrites ==
    \E r \in Requests :
        /\ ipc[r] = "spawned"
        /\ ~dotTaskmaster
        /\ dotTaskmaster' = TRUE
        /\ UNCHANGED <<ipc, initDir, initAnswers>>
        /\ UNCHANGED <<requestVars, templateVars, concurrentVars, cliVars, settingsVars,
                       fanoutVars, prdVars, wizardVars, mcpVars>>

\* the init child closes: 200 for exit code 0, else 500
InitChildCloses ==
    \E r \in Requests, code \in ExitCodes :
        /\ ipc[r] = "spawned"
        /\ ipc' = [ipc EXCEPT ![r] = "closed"]
        /\ initAnswers' = [initAnswers EXCEPT ![r] = IF code = 0 THEN 200 ELSE 500]
        /\ UNCHANGED <<dotTaskmaster, initDir>>
        /\ UNCHANGED <<requestVars, templateVars, concurrentVars, cliVars, settingsVars,
                       fanoutVars, prdVars, wizardVars, mcpVars>>

\* the init child cannot be started: 'error' has no listener, no answer
InitChildFailsToStart ==
    \E r \in Requests :
        /\ ipc[r] = "spawned"
        /\ ipc' = [ipc EXCEPT ![r] = "crashed"]
        /\ UNCHANGED <<dotTaskmaster, initDir, initAnswers>>
        /\ UNCHANGED <<requestVars, templateVars, concurrentVars, cliVars, settingsVars,
                       fanoutVars, prdVars, wizardVars, mcpVars>>

\* no init request is being served
QuietInit ==
    /\ ipc = [r \in Requests |-> "idle"]
    /\ dotTaskmaster = FALSE
    /\ initDir = "ok"
    /\ initAnswers = [r \in Requests |-> 0]

(***************************************************************************)
(* TaskMasterSetupWizard (client): a four step dialog.  handleNext         *)
(* validates the step shown and moves on, awaiting the MCP status at step  *)
(* 2 and running completeSetup at step 4; handlePrevious moves back.  The  *)
(* Next button is disabled while loading, the Previous button only at step *)
(* 1.  An effect copies currentProject.path into projectRoot whenever the  *)
(* currentProject prop changes.                                            *)
(***************************************************************************)
totalSteps == 4

\* the texts a user types into the PRD textarea
PrdTexts == SeqsUpTo({" ", "a"}, MaxPrdLen)

\* the paths a user types into the project root input
ProjectRoots == {"", "/p1", "/p2"}

\* String.prototype.trim
RECURSIVE TrimStart(_)
TrimStart(s) == IF s # <<>> /\ Head(s) = " " THEN TrimStart(Tail(s)) ELSE s

RECURSIVE TrimEnd(_)
TrimEnd(s) ==
    IF s # <<>> /\ s[Len(s)] = " " THEN TrimEnd(SubSeq(s, 1, Len(s) - 1)) ELSE s

Trim(s) == TrimEnd(TrimStart(s))

\* the values of the currentProject prop: none, or a project whose path may
\* be missing (path "" stands for a project without a path)
NoProject == [selected |-> FALSE]
CurrentProjects ==
    {NoProject} \cup {[selected |-> TRUE, path |-> p] : p \in ProjectRoots}

NoError == "<null>"
NothingPosted == [sent |-> FALSE]

\* useEffect(..., [currentProject]): projectRoot follows the prop
ProjectEffect(data, project) ==
    IF project.selected
    THEN [data EXCEPT !.projectRoot = project.path]
    ELSE data

\* the Next button: disabled while loading
handleNext ==
    /\ wizard # "closed"
    /\ ~loading
    /\ \/ /\ currentStep = 1
          /\ IF setupData.projectRoot = ""
             THEN /\ error' = "Project root path is required"
                  /\ currentStep' = currentStep
             ELSE /\ error' = NoError
                  /\ currentStep' = 2
          /\ UNCHANGED <<loading, wizard, posted>>
       \/ /\ currentStep = 2
          /\ error' = NoError
          /\ loading' = TRUE
          /\ wizard' = "checking"
          /\ UNCHANGED <<currentStep, posted>>
       \/ /\ currentStep = 3
          /\ IF Trim(setupData.prdContent) = <<>>
             THEN /\ error' = "Please create or import a PRD to continue"
                  /\ currentStep' = currentStep
             ELSE /\ error' = NoError
                  /\ currentStep' = 4
          /\ UNCHANGED <<loading, wizard, posted>>
       \/ /\ currentStep = 4
          /\ error' = NoError
          /\ loading' = TRUE
          /\ wizard' = "completing"
          /\ posted' = [sent |-> TRUE,
                        projectRoot |-> setupData.projectRoot,
                        prdContent |-> setupData.prdContent]
          /\ UNCHANGED currentStep
    /\ UNCHANGED <<setupData, currentProject>>
    /\ UNCHANGED <<requestVars, templateVars, concurrentVars, cliVars, settingsVars,
                   fanoutVars, prdVars, initVars, mcpVars>>

\* the MCP status awaited at step 2 arrives, or the request fails
McpStatusArrives ==
    /\ wizard = "checking"
    /\ \/ \E configured \in BOOLEAN :
              /\ setupData' = [setupData EXCEPT !.mcpConfigured = configured]
              /\ UNCHANGED error
       \/ /\ error' = "Failed to check MCP server status"
          /\ UNCHANGED setupData
    /\ currentStep' = 3
    /\ loading' = FALSE
    /\ wizard' = "idle"
    /\ UNCHANGED <<currentProject, posted>>
    /\ UNCHANGED <<requestVars, templateVars, concurrentVars, cliVars, settingsVars,
                   fanoutVars, prdVars, initVars, mcpVars>>

\* the Previous button: disabled at step 1 only
handlePrevious ==
    /\ wizard # "closed"
    /\ currentStep > 1
    /\ currentStep' = currentStep - 1
    /\ error' = NoError
    /\ UNCHANGED <<loading, setupData, currentProject, wizard, posted>>
    /\ UNCHANGED <<requestVars, templateVars, concurrentVars, cliVars, settingsVars,
                   fanoutVars, prdVars, initVars, mcpVars>>

\* the project root input, shown at step 1
EditProjectRoot ==
    /\ wizard # "closed"
    /\ currentStep = 1
    /\ \E value \in ProjectRoots \ {setupData.projectRoot} :
           setupData' = [setupData EXCEPT !.projectRoot = value]
    /\ UNCHANGED <<currentStep, loading, error, currentProject, wizard, posted>>
    /\ UNCHANGED <<requestVars, templateVars, concurrentVars, cliVars, settingsVars,
                   fanoutVars, prdVars, initVars, mcpVars>>

\* the PRD textarea, shown at step 3
EditPrdContent ==
    /\ wizard # "closed"
    /\ currentStep = 3
    /\ \E value \in PrdTexts \ {setupData.prdContent} :
           setupData' = [setupData EXCEPT !.prdContent = value]
    /\ UNCHANGED <<currentStep, loading, error, currentProject, wizard, posted>>
    /\ UNCHANGED <<requestVars, templateVars, concurrentVars, cliVars, settingsVars,
                   fanoutVars, prdVars, initVars, mcpVars>>

\* the parent renders the wizard with another currentProject; the effect runs
ProjectChanges ==
    /\ wizard # "closed"
    /\ \E project \in CurrentProjects \ {currentProject} :
           /\ currentProject' = project
           /\ setupData' = ProjectEffect(setupData, project)
    /\ UNCHANGED <<currentStep, loading, error, wizard, posted>>
    /\ UNCHANGED <<requestVars, templateVars, concurrentVars, cliVars, settingsVars,
                   fanoutVars, prdVars, initVars, mcpVars>>

\* completeSetup after the answer to /taskmaster/initialize: onComplete and
\* onClose when it is ok, the error when it is not or the request failed
completeSetup ==
    /\ wizard = "completing"
    /\ \E ok \in BOOLEAN :
           IF ok
           THEN /\ wizard' = "closed"
                /\ UNCHANGED error
           ELSE /\ wizard' = "idle"
                /\ error' = "Failed to initialize TaskMaster project"
    /\ loading' = FALSE
    /\ UNCHANGED <<currentStep, setupData, currentProject, posted>>
    /\ UNCHANGED <<requestVars, templateVars, concurrentVars, cliVars, settingsVars,
                   fanoutVars, prdVars, initVars, mcpVars>>

\* no wizard is open
NoWizard ==
    /\ currentStep = 1
    /\ loading = FALSE
    /\ error = NoError
    /\ setupData = [projectRoot |-> "", mcpConfigured |-> FALSE, prdContent |-> <<>>]
    /\ currentProject = NoProject
    /\ wizard = "idle"
    /\ posted = NothingPosted

(***************************************************************************)
(* detectTaskMasterMCPServer on the two configuration files.  The loop     *)
(* reads ~/.claude.json and then ~/.claude/settings.json and stops at the  *)
(* first that is read and parsed; the search looks at the user-scoped      *)
(* mcpServers of that file and then at those of each project in it.        *)
(***************************************************************************)
configPaths == <<".claude.json", ".claude/settings.json">>

NullConfig == [null |-> TRUE]

\* the config of a server entry: null, or an object whose command and url
\* may be empty
ServerConfigs ==
    {NullConfig}
    \cup {[null |-> FALSE, command |-> "", url |-> ""],
          [null |-> FALSE, command |-> "npx", url |-> ""],
          [null |-> FALSE, command |-> "task-master-ai", url |-> ""],
          [null |-> FALSE, command |-> "", url |-> "http://localhost"]}

\* Object.entries(mcpServers)
ServerEntries == [name : {"task-master-ai", "other"}, config : ServerConfigs]

\* a file that cannot be read, one that does not parse, the JSON text null,
\* or an object with mcpServers and the mcpServers of its projects
ConfigFileStates ==
    {[state |-> s] : s \in {"missing", "malformed", "null"}}
    \cup {[state |-> "object", mcpServers |-> user, projects |-> projects] :
            user \in SeqsUpTo(ServerEntries, MaxServers),
            projects \in SeqsUpTo(SeqsUpTo(ServerEntries, MaxServers), 1)}

\* a file with at most one server, user-scoped
ShortConfigFiles ==
    {[state |-> s] : s \in {"missing", "malformed", "null"}}
    \cup {[state |-> "object", mcpServers |-> user, projects |-> <<>>] :
            user \in SeqsUpTo(ServerEntries, 1)}

\* the two files of a call: any file in second place after a first that
\* cannot be used, and any file in first place before a short second one
ConfigFilePairs(files) ==
    \/ \E first \in {[state |-> s] : s \in {"missing", "malformed"}},
          second \in ConfigFileStates : files = <<first, second>>
    \/ \E first \in ConfigFileStates, second \in ShortConfigFiles :
          files = <<first, second>>

\* String.prototype.includes('task-master') on the names and commands above
IncludesTaskMaster(s) == s = "task-master-ai"

\* the predicate given to find
MatchesTaskMaster(entry) ==
    \/ entry.name = "task-master-ai"
    \/ IncludesTaskMaster(entry.name)
    \/ /\ ~entry.config.null
       /\ entry.config.command # ""
       /\ IncludesTaskMaster(entry.config.command)

NoEntry == [name |-> "<undefined>"]

\* Array.prototype.find: the first entry that matches
RECURSIVE Find(_)
Find(entries) ==
    IF entries = <<>> THEN NoEntry
    ELSE IF MatchesTaskMaster(Head(entries)) THEN Head(entries)
    ELSE Find(Tail(entries))

\* the first project whose mcpServers hold a matching entry
RECURSIVE FindInProjects(_)
FindInProjects(projects) ==
    IF projects = <<>> THEN NoEntry
    ELSE IF Find(Head(projects)) # NoEntry THEN Find(Head(projects))
    ELSE FindInProjects(Tail(projects))

NoServer == [scope |-> "<null>"]

\* as if the projects were searched before the user-scoped servers
TaskMasterServerProjectsFirst(config) ==
    IF FindInProjects(config.projects) # NoEntry
    THEN [scope |-> "local", entry |-> FindInProjects(config.projects)]
    ELSE IF Find(config.mcpServers) # NoEntry
    THEN [scope |-> "user", entry |-> Find(config.mcpServers)]
    ELSE NoServer

\* taskMasterServer: the user-scoped match, else the first project-scoped one
TaskMasterServer(config) ==
    IF Find(config.mcpServers) # NoEntry
    THEN [scope |-> "user", entry |-> Find(config.mcpServers)]
    ELSE IF FindInProjects(config.projects) # NoEntry
    THEN [scope |-> "local", entry |-> FindInProjects(config.projects)]
    ELSE NoServer

\* what the call found, as detectTaskMasterMCPServer takes it
McpView(files, config) ==
    IF config.state # "object"
    THEN [config |-> IF \A i \in DOMAIN files : files[i].state = "missing"
                     THEN "unreadable" ELSE "malformed",
          entry |-> "absent", command |-> FALSE, url |-> FALSE]
    ELSE LET server == TaskMasterServer(config)
         IN  IF server = NoServer
             THEN [config |-> "parsed", entry |-> "absent",
                   command |-> FALSE, url |-> FALSE]
             ELSE IF server.entry.config.null
             THEN [config |-> "parsed", entry |-> "null",
                   command |-> FALSE, url |-> FALSE]
             ELSE [config |-> "parsed", entry |-> "object",
                   command |-> server.entry.config.command # "",
                   url |-> server.entry.config.url # ""]

NoConfigData == [state |-> "null"]

\* one turn of the loop over configPaths: readFile and JSON.parse, break on
\* success, continue on failure
ReadConfigFile ==
    /\ mpc = "reading"
    /\ LET i == Len(reads) + 1
           file == configFiles[i]
       IN  /\ reads' = Append(reads, configPaths[i])
           /\ IF file.state \in {"missing", "malformed"}
              THEN /\ UNCHANGED configData
                   /\ mpc' = IF i = Len(configPaths) THEN "loaded" ELSE "reading"
              ELSE /\ configData' = file
                   /\ mpc' = "loaded"
    /\ UNCHANGED <<configFiles, taskMasterServer, detected>>
    /\ UNCHANGED <<requestVars, templateVars, concurrentVars, cliVars, settingsVars,
                   fanoutVars, prdVars, initVars, wizardVars>>

\* after the loop: the search and the result; reading config.command of a
\* matching entry whose config is null throws before taskMasterServer is set
SearchServers ==
    /\ mpc = "loaded"
    /\ mpc' = "done"
    /\ taskMasterServer' =
           IF configData.state # "object" THEN NoServer
           ELSE LET server == TaskMasterServer(configData)
                IN  IF server # NoServer /\ server.entry.config.null
                    THEN NoServer ELSE server
    /\ detected' = detectTaskMasterMCPServer(McpView(configFiles, configData))
    /\ UNCHANGED <<configFiles, reads, configData>>
    /\ UNCHANGED <<requestVars, templateVars, concurrentVars, cliVars, settingsVars,
                   fanoutVars, prdVars, initVars, wizardVars>>

\* no call of detectTaskMasterMCPServer is running
QuietMcp ==
    /\ configFiles = [i \in DOMAIN configPaths |-> [state |-> "missing"]]
    /\ mpc = "done"
    /\ reads = <<>>
    /\ configData = NoConfigData
    /\ taskMasterServer = NoServer
    /\ detected = NoResp

\* no request is being served
QuietServer ==
    /\ hpc = [r \in Requests |-> "idle"]
    /\ awaiting = [r \in Requests |-> {}]
    /\ locals = [r \in Requests |-> NoLocals]
    /\ responses = [r \in Requests |-> NoResp]
    /\ sent = <<>>

Init ==
    /\ pc = "idle"
    /\ req = NoReq
    /\ resp = NoResp
    /\ broadcast = NoMsg
    /\ previous = NoResp
    /\ selectedTemplate = NoTemplate
    /\ customizations = <<>>
    /\ step = "select"
    /\ world = [projectName |-> "p1", dir |-> "ok",
                fs |-> CHOOSE o \in FolderObsOver({SampleDoc}) : TRUE,
                mcpConfig |-> CHOOSE m \in McpObs : TRUE, wss |-> FALSE]
    /\ QuietServer
    /\ QuietCli
    /\ storage = NoItem
    /\ NoProvider
    /\ QuietMcp
    /\ NoWizard
    /\ QuietInit
    /\ QuietPrd
    /\ QuietSockets

Next ==
    \/ DetectAll
    \/ Detect
    \/ TaskMasterStatus
    \/ GetTasks
    \/ Repeat
    \/ NextRequest

Spec == Init /\ [][Next]_vars

NextTemplate ==
    \/ handleSelectTemplate
    \/ setCustomization
    \/ handleApplyTemplate
    \/ onTemplateApplied
    \/ NextRequest

SpecTemplate == Init /\ [][NextTemplate]_vars

InitConcurrent ==
    /\ pc = "idle"
    /\ req = NoReq
    /\ resp = NoResp
    /\ broadcast = NoMsg
    /\ previous = NoResp
    /\ selectedTemplate = NoTemplate
    /\ customizations = <<>>
    /\ step = "select"
    /\ world \in Worlds
    /\ QuietServer
    /\ QuietCli
    /\ storage = NoItem
    /\ NoProvider
    /\ QuietMcp
    /\ NoWizard
    /\ QuietInit
    /\ QuietPrd
    /\ QuietSockets

NextConcurrent ==
    \/ ArriveDetect
    \/ ResolveDirectory
    \/ AccessDirectory
    \/ FolderDetected
    \/ McpDetected
    \/ RespondDetect

SpecConcurrent == InitConcurrent /\ [][NextConcurrent]_vars

NextCli ==
    \/ InitProject
    \/ AddTask
    \/ UpdateTask
    \/ ParsePrd
    \/ ChildCloses
    \/ ChildFailsToStart
    \/ NextCliRequest

SpecCli == Init /\ [][NextCli]_vars

InitFanout ==
    /\ pc = "idle"
    /\ req = NoReq
    /\ resp = NoResp
    /\ broadcast = NoMsg
    /\ previous = NoResp
    /\ selectedTemplate = NoTemplate
    /\ customizations = <<>>
    /\ step = "select"
    /\ world = [projectName |-> "p1", dir |-> "ok",
                fs |-> CHOOSE o \in FolderObsOver({SampleDoc}) : TRUE,
                mcpConfig |-> CHOOSE m \in McpObs : TRUE, wss |-> FALSE]
    /\ QuietServer
    /\ QuietCli
    /\ storage = NoItem
    /\ NoProvider
    /\ QuietMcp
    /\ NoWizard
    /\ QuietInit
    /\ QuietPrd
    /\ clients \in UNION {[1 .. n -> Clients] : n \in 0 .. MaxClients}
    /\ fanCall = NoCall

NextFanout ==
    \/ BroadcastProjectUpdate
    \/ BroadcastTasksUpdate
    \/ BroadcastMCPStatusChange
    \/ BroadcastUpdate
    \/ NextBroadcast

SpecFanout == InitFanout /\ [][NextFanout]_vars

NextPrd ==
    \/ SavePrd
    \/ ReadPrd
    \/ DeletePrd
    \/ ParsePrdFile
    \/ ApplyTemplateFile
    \/ NextPrdRequest

SpecPrd == Init /\ [][NextPrd]_vars

InitRace ==
    /\ pc = "idle"
    /\ req = NoReq
    /\ resp = NoResp
    /\ broadcast = NoMsg
    /\ previous = NoResp
    /\ selectedTemplate = NoTemplate
    /\ customizations = <<>>
    /\ step = "select"
    /\ world = [projectName |-> "p1", dir |-> "ok",
                fs |-> CHOOSE o \in FolderObsOver({SampleDoc}) : TRUE,
                mcpConfig |-> CHOOSE m \in McpObs : TRUE, wss |-> FALSE]
    /\ QuietServer
    /\ QuietCli
    /\ storage = NoItem
    /\ NoProvider
    /\ QuietMcp
    /\ NoWizard
    /\ QuietPrd
    /\ QuietSockets
    /\ ipc = [r \in Requests |-> "idle"]
    /\ dotTaskmaster \in BOOLEAN
    /\ initDir \in {"ok", "unresolvable"}
    /\ initAnswers = [r \in Requests |-> 0]

NextRace ==
    \/ InitArrives
    \/ InitResolves
    \/ InitChecks
    \/ InitChildWrites
    \/ InitChildCloses
    \/ InitChildFailsToStart

SpecRace == InitRace /\ [][NextRace]_vars

\* the wizard has mounted: the effect has copied the path of currentProject
InitWizard ==
    /\ pc = "idle"
    /\ req = NoReq
    /\ resp = NoResp
    /\ broadcast = NoMsg
    /\ previous = NoResp
    /\ selectedTemplate = NoTemplate
    /\ customizations = <<>>
    /\ step = "select"
    /\ world = [projectName |-> "p1", dir |-> "ok",
                fs |-> CHOOSE o \in FolderObsOver({SampleDoc}) : TRUE,
                mcpConfig |-> CHOOSE m \in McpObs : TRUE, wss |-> FALSE]
    /\ QuietServer
    /\ QuietCli
    /\ storage = NoItem
    /\ NoProvider
    /\ QuietMcp
    /\ QuietPrd
    /\ QuietSockets
    /\ QuietInit
    /\ currentStep = 1
    /\ loading = FALSE
    /\ error = NoError
    /\ currentProject \in CurrentProjects
    /\ setupData = ProjectEffect([projectRoot |-> "", mcpConfigured |-> FALSE,
                                  prdContent |-> <<>>], currentProject)
    /\ wizard = "idle"
    /\ posted = NothingPosted

NextWizard ==
    \/ handleNext
    \/ McpStatusArrives
    \/ handlePrevious
    \/ EditProjectRoot
    \/ EditPrdContent
    \/ ProjectChanges
    \/ completeSetup

SpecWizard == InitWizard /\ [][NextWizard]_vars

\* a call of detectTaskMasterMCPServer starts on some pair of files
InitMcp ==
    /\ pc = "idle"
    /\ req = NoReq
    /\ resp = NoResp
    /\ broadcast = NoMsg
    /\ previous = NoResp
    /\ selectedTemplate = NoTemplate
    /\ customizations = <<>>
    /\ step = "select"
    /\ world = [projectName |-> "p1", dir |-> "ok",
                fs |-> CHOOSE o \in FolderObsOver({SampleDoc}) : TRUE,
                mcpConfig |-> CHOOSE m \in McpObs : TRUE, wss |-> FALSE]
    /\ QuietServer
    /\ QuietCli
    /\ storage = NoItem
    /\ NoProvider
    /\ QuietPrd
    /\ QuietSockets
    /\ QuietInit
    /\ NoWizard
    /\ ConfigFilePairs(configFiles)
    /\ mpc = "reading"
    /\ reads = <<>>
    /\ configData = NoConfigData
    /\ taskMasterServer = NoServer
    /\ detected = NoResp

NextMcp ==
    \/ ReadConfigFile
    \/ SearchServers

SpecMcp == InitMcp /\ [][NextMcp]_vars

\* a browser with or without a stored preference opens the page
InitSettings ==
    /\ pc = "idle"
    /\ req = NoReq
    /\ resp = NoResp
    /\ broadcast = NoMsg
    /\ previous = NoResp
    /\ selectedTemplate = NoTemplate
    /\ customizations = <<>>
    /\ step = "select"
    /\ world = [projectName |-> "p1", dir |-> "ok",
                fs |-> CHOOSE o \in FolderObsOver({SampleDoc}) : TRUE,
                mcpConfig |-> CHOOSE m \in McpObs : TRUE, wss |-> FALSE]
    /\ QuietServer
    /\ QuietCli
    /\ storage \in {NoItem, "true", "false"}
    /\ NoProvider
    /\ QuietMcp
    /\ NoWizard
    /\ QuietInit
    /\ QuietPrd
    /\ QuietSockets

NextSettings ==
    \/ Mount
    \/ checkInstallation
    \/ InstallationChecked
    \/ toggleTasksEnabled
    \/ Reload

SpecSettings == InitSettings /\ [][NextSettings]_vars

\* a spawned child does not stay unsettled for ever: the operating system
\* either reports that it could not be started or, in the end, that it exited
SpecCliFair ==
    /\ Init
    /\ [][NextCli]_vars
    /\ WF_vars(ChildCloses \/ ChildFailsToStart)


(***************************************************************************)
(* The status table of the reconciler.                                     *)
(***************************************************************************)
StatusEnum == {"fully-configured", "taskmaster-only", "mcp-only", "not-configured"}

Reconcile(taskmasterPresent, mcpConfigured) ==
    CASE taskmasterPresent /\ mcpConfigured -> "fully-configured"
      [] taskmasterPresent /\ ~mcpConfigured -> "taskmaster-only"
      [] ~taskmasterPresent /\ mcpConfigured -> "mcp-only"
      [] ~taskmasterPresent /\ ~mcpConfigured -> "not-configured"

TaskmasterPresent(r) ==
    BoolField(r, "hasTaskmaster") /\ BoolField(r, "hasEssentialFiles")

McpConfigured(r) ==
    BoolField(r, "hasMCPServer") /\ BoolField(r, "isConfigured")

\* C1: the status of GET /detect, and of every detected project of
\* GET /detect-all, is the table's value for (hasTaskmaster AND
\* hasEssentialFiles, hasMCPServer AND isConfigured) of the results it carries.
StatusFollowsTable ==
    /\ (resp.op = "detect" /\ resp.code = 200) =>
          resp.status = Reconcile(TaskmasterPresent(resp.taskmaster),
                                  McpConfigured(resp.mcp))
    /\ (resp.op = "detect-all" /\ resp.code = 200) =>
          \A i \in DOMAIN resp.projects :
              "taskmaster" \in DOMAIN resp.projects[i] =>
                  resp.projects[i].status =
                      Reconcile(TaskmasterPresent(resp.projects[i].taskmaster),
                                McpConfigured(resp.projects[i].mcp))

\* a detect-all answer with an initialised project and one whose folder
\* holds no readable tasks file, the MCP server not being configured
StatusFollowsTableWitness ==
    /\ resp.op = "detect-all"
    /\ resp.code = 200
    /\ Len(resp.projects) = 2
    /\ resp.projects[1].status = "taskmaster-only"
    /\ resp.projects[2].status = "not-configured"
    /\ BoolField(resp.projects[2].taskmaster, "hasTaskmaster")
    /\ ~BoolField(resp.projects[2].taskmaster, "hasEssentialFiles")

\* C2: for the same detection result and the same MCP result, the overall
\* status the TaskMasterStatus component shows equals the status the detect
\* route computes.
ClientStatusEqualsServerStatus ==
    (resp.op = "render" /\ resp.view = "status") =>
        resp.overallStatus = DetermineStatus(resp.taskmaster, resp.mcp)

\* C3: every project answered by GET /detect or GET /detect-all, failures of
\* resolving the directory included, reports a status of the four values.
StatusAlwaysInEnum ==
    /\ resp.op = "detect" =>
          ("status" \in DOMAIN resp /\ resp.status \in StatusEnum)
    /\ (resp.op = "detect-all" /\ resp.code = 200) =>
          \A i \in DOMAIN resp.projects : resp.projects[i].status \in StatusEnum

(***************************************************************************)
(* The rules of task-list resolution, as stated: a list is required        *)
(* wherever a rule names a list.                                           *)
(***************************************************************************)
HasTasksList(v) ==
    v.t = "obj" /\ "tasks" \in DOMAIN v.o /\ IsArray(v.o["tasks"])

RuleResolution(doc) ==
    IF IsArray(doc) THEN [tasks |-> doc, currentTag |-> "master"]
    ELSE IF HasTasksList(doc)
    THEN [tasks |-> doc.o["tasks"], currentTag |-> "master"]
    ELSE IF doc.t = "obj" /\ "master" \in DOMAIN doc.o /\ HasTasksList(doc.o["master"])
    THEN [tasks |-> doc.o["master"].o["tasks"], currentTag |-> "master"]
    ELSE IF doc.t = "obj" /\ \E i \in DOMAIN doc.keys : HasTasksList(doc.o[doc.keys[i]])
    THEN LET first == CHOOSE i \in DOMAIN doc.keys :
                          /\ HasTasksList(doc.o[doc.keys[i]])
                          /\ \A j \in 1..(i - 1) : ~HasTasksList(doc.o[doc.keys[j]])
         IN  [tasks |-> doc.o[doc.keys[first]].o["tasks"],
              currentTag |-> doc.keys[first]]
    ELSE [tasks |-> List(<<>>), currentTag |-> "master"]

\* C4: GET /tasks resolves the task list of a parsed tasks.json by the first
\* matching rule of the five, in their order.
ResolutionFollowsRules ==
    (req.op = "tasks" /\ req.file = "parsed") =>
        LET r == ResolveTasks(req.doc)
        IN  /\ ~r.threw
            /\ r.tasks = RuleResolution(req.doc).tasks
            /\ r.currentTag = RuleResolution(req.doc).currentTag

\* C5: for every JSON-parseable content of tasks.json the route answers a
\* valid result and never an error status.
ParseableContentNeverErrors ==
    (req.op = "tasks" /\ req.file = "parsed") =>
        /\ resp.code = 200
        /\ "tasks" \in DOMAIN resp
        /\ "currentTag" \in DOMAIN resp

OutputFields ==
    {"title", "description", "details", "testStrategy", "status", "priority",
     "dependencies", "subtasks"}

DefaultOf(f) ==
    CASE f = "title" -> Str("Untitled Task")
      [] f \in {"description", "details", "testStrategy"} -> Str("")
      [] f = "status" -> Str("pending")
      [] f = "priority" -> Str("medium")
      [] f \in {"dependencies", "subtasks"} -> List(<<>>)

Omits(task, f) == f \notin DOMAIN task.o

Normalized == resp.op = "tasks" /\ resp.code = 200 /\ "currentTag" \in DOMAIN resp

\* C6 as stated: every output task has the eight fields, each holding its
\* documented default when the source record omits that field.
FieldDefaultsWhenOmitted ==
    Normalized =>
        \A i \in DOMAIN resp.tasks : \A f \in OutputFields :
            /\ resp.tasks[i][f].t # "undef"
            /\ Omits(ResolveTasks(req.doc).tasks.l[i], f) =>
                  resp.tasks[i][f] = DefaultOf(f)

\* C6 as amended: every output task has the eight fields, each holding its
\* documented default when the source record omits that field; testStrategy
\* holds the empty string when the record omits both testStrategy and
\* test_strategy, and the value of test_strategy when only that is given.
FieldDefaultsWhenOmittedOrAliased ==
    Normalized =>
        \A i \in DOMAIN resp.tasks : \A f \in OutputFields :
            LET src == ResolveTasks(req.doc).tasks.l[i]
            IN  /\ resp.tasks[i][f].t # "undef"
                /\ (Omits(src, f) /\ (f = "testStrategy" => Omits(src, "test_strategy")))
                      => resp.tasks[i][f] = DefaultOf(f)
                /\ (f = "testStrategy" /\ Omits(src, f) /\ ~Omits(src, "test_strategy"))
                      => resp.tasks[i][f] = src.o["test_strategy"]

\* an answer with an output task whose source gave only an id and a title,
\* and one whose source gave test_strategy and no testStrategy
FieldDefaultsWitness ==
    /\ Normalized
    /\ \E i \in DOMAIN resp.tasks :
          /\ ResolveTasks(req.doc).tasks.l[i] = TaskA
          /\ resp.tasks[i].status = Str("pending")
          /\ resp.tasks[i].priority = Str("medium")
          /\ resp.tasks[i].dependencies = List(<<>>)
          /\ resp.tasks[i].subtasks = List(<<>>)
          /\ resp.tasks[i].testStrategy = Str("")
    /\ \E i \in DOMAIN resp.tasks :
          /\ ResolveTasks(req.doc).tasks.l[i] = TaskAlias
          /\ resp.tasks[i].title = Str("Untitled Task")
          /\ resp.tasks[i].testStrategy = Str("ts")

\* C7: for every status carried by an output task, in the fixed set or not,
\* tasksByStatus holds under that status the number of output tasks with it.
TasksByStatusCountsEveryStatus ==
    Normalized =>
        \A i \in DOMAIN resp.tasks :
            LET st == resp.tasks[i].status
            IN  /\ st.t = "str"
                /\ st.s \in DOMAIN resp.tasksByStatus
                /\ resp.tasksByStatus[st.s] =
                       Cardinality({j \in DOMAIN resp.tasks : resp.tasks[j].status = st})

(***************************************************************************)
(* Literal substitution, as stated for placeholder replacement.            *)
(***************************************************************************)
OccursAt(content, pat, i) ==
    /\ i + Len(pat) - 1 <= Len(content)
    /\ SubSeq(content, i, i + Len(pat) - 1) = pat

RECURSIVE LiteralReplaceAll(_, _, _, _)
LiteralReplaceAll(content, pat, value, i) ==
    IF i > Len(content) THEN <<>>
    ELSE IF OccursAt(content, pat, i)
    THEN value \o LiteralReplaceAll(content, pat, value, i + Len(pat))
    ELSE <<content[i]>> \o LiteralReplaceAll(content, pat, value, i + 1)

RECURSIVE LiteralSubstitution(_, _, _)
LiteralSubstitution(content, entries, n) ==
    IF n = 0 THEN content
    ELSE LiteralReplaceAll(LiteralSubstitution(content, entries, n - 1),
                           <<"[">> \o entries[n][1] \o <<"]">>, entries[n][2], 1)

\* C8: the text POST /apply-template writes is the template with every
\* literal occurrence of each [Name] replaced by the substitution supplied
\* for Name, and no other character changed.
SubstitutionReplacesPlaceholders ==
    (resp.op = "apply" /\ resp.code = 200) =>
        resp.content = LiteralSubstitution(resp.source, customizations,
                                           Len(customizations))

\* C9: the text inserted at each replaced occurrence is exactly the
\* supplied value.
ValueInsertedLiterally ==
    (resp.op = "apply" /\ resp.code = 200) =>
        \A k \in DOMAIN resp.inserted : resp.inserted[k].text = resp.inserted[k].value

PlaceholderNames(content) ==
    LET placeholders == MatchPlaceholders(content, 1)
    IN  [i \in DOMAIN placeholders |-> Slice(placeholders[i])]

FirstOccurrence(names, n) ==
    CHOOSE i \in DOMAIN names :
        names[i] = n /\ \A j \in 1..(i - 1) : names[j] # n

HasCounts(taskmaster) ==
    /\ "metadata" \in DOMAIN taskmaster
    /\ "completionPercentage" \in DOMAIN taskmaster.metadata

DoneCount(tasks) ==
    Cardinality({i \in DOMAIN tasks : Prop(tasks[i], "status") = Str("done")})

RoundedPercentage(doneCount, totalCount) ==
    IF totalCount = 0 THEN 0 ELSE MathRound(doneCount * 100, totalCount)

\* C11: the completion percentage of the detection metadata is
\* round(doneCount / totalCount * 100) over the tasks counted, 0 when there
\* are none, and always a number of 0..100; the client shows a percentage only
\* when its task count is above 0.
CompletionPercentageIsRounded ==
    /\ (resp.op = "detect" /\ resp.code = 200 /\ HasCounts(resp.taskmaster)) =>
          LET tasks == CollectTasks(req.fs.doc).tasks.l
              percentage == resp.taskmaster.metadata.completionPercentage
          IN  /\ percentage = RoundedPercentage(DoneCount(tasks), Len(tasks))
              /\ percentage \in 0..100
    /\ (resp.op = "render" /\ resp.view = "status" /\ resp.progress.shown) =>
          (resp.progress.percentShown => resp.progress.taskCount > 0)

\* C12: a second GET /tasks over an unchanged tasks.json answers the same
\* tasks (every field), currentTag and tasksByStatus as the first, and a
\* second detect over unchanged inputs the same status.
RepeatedCallsAnswerTheSame ==
    pc = "repeated" =>
        /\ (req.op = "tasks" /\ resp.code = 200 /\ "currentTag" \in DOMAIN resp) =>
              /\ resp.tasks = previous.tasks
              /\ resp.currentTag = previous.currentTag
              /\ resp.tasksByStatus = previous.tasksByStatus
        /\ (req.op = "detect" /\ resp.code = 200) =>
              resp.status = previous.status

EmptyListRead ==
    /\ req.op = "tasks"
    /\ req.file = "parsed"
    /\ req.doc = List(<<>>)

\* C13 as stated: the empty task list is answered with no tasks, currentTag
\* master and a tasksByStatus without entries.
EmptyListGivesEmptyMap ==
    EmptyListRead =>
        /\ resp.code = 200
        /\ resp.tasks = <<>>
        /\ resp.currentTag = "master"
        /\ DOMAIN resp.tasksByStatus = {}

\* C13 as amended: the empty task list is answered with no tasks, currentTag
\* master and a tasksByStatus that holds 0 under each of the six fixed
\* statuses and nothing else.
EmptyListGivesZeroCounts ==
    EmptyListRead =>
        /\ resp.code = 200
        /\ resp.tasks = <<>>
        /\ resp.currentTag = "master"
        /\ resp.totalTasks = 0
        /\ DOMAIN resp.tasksByStatus =
               {"pending", "in-progress", "review", "done", "deferred", "cancelled"}
        /\ \A st \in DOMAIN resp.tasksByStatus : resp.tasksByStatus[st] = 0

\* GET /tasks has answered a tasks.json that holds []
EmptyListWitness ==
    /\ EmptyListRead
    /\ pc = "done"
    /\ resp.op = "tasks"
    /\ resp.code = 200
    /\ resp.tasks = <<>>

FailsWithReason(result, presence) ==
    /\ ~BoolField(result, presence)
    /\ "reason" \in DOMAIN result
    /\ result.reason # ""

\* C14: when the .taskmaster directory is missing, is no directory or cannot
\* be examined, detectTaskMasterFolder returns hasTaskmaster false with a
\* non-empty reason; when no configuration file can be read and parsed, or the
\* matching server entry has a null config, detectTaskMasterMCPServer returns
\* hasMCPServer false with a non-empty reason; neither fails the request.
DetectionFailuresGiveReason ==
    (resp.op = "detect" /\ req.dir = "ok") =>
        /\ resp.code = 200
        /\ req.fs.folder \in {"missing", "notdir", "staterr"} =>
              FailsWithReason(resp.taskmaster, "hasTaskmaster")
        /\ (req.mcpConfig.config # "parsed" \/ req.mcpConfig.entry = "null") =>
              FailsWithReason(resp.mcp, "hasMCPServer")

\* a detect answered although the directory could not be examined and the
\* matching server entry has a null config
DetectionFailuresWitness ==
    /\ resp.op = "detect"
    /\ resp.code = 200
    /\ req.fs.folder = "staterr"
    /\ req.mcpConfig.entry = "null"
    /\ resp.taskmaster.reason = "Error checking directory"
    /\ resp.mcp.reason = "Error checking MCP config"

\* C15: the metadata of a detection result is the counts or null; it is
\* null exactly when the tasks file is not readable, and it holds the counts
\* whenever hasEssentialFiles is true.
MetadataIsCountsOrNull ==
    (resp.op = "detect" /\ resp.code = 200 /\ "metadata" \in DOMAIN resp.taskmaster) =>
        LET metadata == resp.taskmaster.metadata
        IN  /\ metadata = Null \/ HasCounts(resp.taskmaster)
            /\ metadata = Null <=> ~req.fs.tasks
            /\ BoolField(resp.taskmaster, "hasEssentialFiles") =>
                  HasCounts(resp.taskmaster)


(***************************************************************************)
(* C16: whatever the interleaving of simultaneous detect requests for one  *)
(* project over an unchanging filesystem and configuration, every request  *)
(* is answered with the status and the detection result it gets when it    *)
(* runs alone, and what one request holds in its variables is never what   *)
(* another request put there.                                              *)
(***************************************************************************)
\* what request r has computed so far, from the disk alone
OwnLocals(r) ==
    [projectPath |-> IF hpc[r] \in {"idle", "resolve"} \/ world.dir = "unresolvable"
                     THEN "unset" ELSE "path",
     taskMasterResult |-> IF \/ hpc[r] = "done" /\ world.dir = "ok"
                             \/ hpc[r] = "detect" /\ "folder" \notin awaiting[r]
                          THEN detectTaskMasterFolder(world.fs) ELSE Pending,
     mcpResult |-> IF \/ hpc[r] = "done" /\ world.dir = "ok"
                      \/ hpc[r] = "detect" /\ "mcp" \notin awaiting[r]
                   THEN detectTaskMasterMCPServer(world.mcpConfig) ELSE Pending]

ConcurrentDetectsAnswerAsAlone ==
    \A r \in Requests :
        /\ responses[r] # NoResp =>
               responses[r] = DetectResponse(world.projectName, world.dir,
                                             world.fs, world.mcpConfig)
        /\ hpc[r] # "idle" => locals[r] = OwnLocals(r)

\* one request has been answered while another is between its two detections
ConcurrentDetectsWitness ==
    \E r, q \in Requests :
        /\ r # q
        /\ responses[r] # NoResp
        /\ responses[r].code = 200
        /\ responses[r].status = "fully-configured"
        /\ Len(sent) = 1
        /\ hpc[q] = "detect"
        /\ awaiting[q] = {"mcp"}


(***************************************************************************)
(* C17: PUT update-task with a body that holds only status spawns the CLI  *)
(* set-status command with the task id and that status; every other body   *)
(* spawns the CLI update-task command with the task id and a prompt that   *)
(* lists the changes of the body; the handler leaves tasks.json as it was. *)
(***************************************************************************)
OnlyStatus(body) == DOMAIN body = {"status"}

\* the prompt names every field of the body with its new value
ListsTheChanges(prompt, body) ==
    \A f \in DOMAIN body :
        \E i \in 1 .. Len(prompt) : prompt[i] = [field |-> f, value |-> body[f]]

UpdateTaskReinvokesCli ==
    (cpc = "spawned" /\ cliReq.route = "update-task") =>
        /\ tasksFile = cliReq.file
        /\ IF OnlyStatus(cliReq.body)
           THEN child = [cmd |-> "set-status", id |-> cliReq.taskId,
                         status |-> cliReq.body["status"]]
           ELSE /\ child.cmd = "update-task"
                /\ child.id = cliReq.taskId
                /\ ListsTheChanges(child.prompt, cliReq.body)


(***************************************************************************)
(* C19: every request to /init, /add-task, /update-task or /parse-prd that *)
(* passed its precondition checks (its child was spawned) receives, in the *)
(* end, exactly one HTTP response, whether the child exits with 0, exits   *)
(* with another code or fails to start.                                    *)
(***************************************************************************)
IsResponse(m) == "code" \in DOMAIN m

ResponseCount == Len(SelectSeq(outbox, IsResponse))

SpawnedRequestAnsweredOnce ==
    /\ [](ResponseCount <= 1)
    /\ (cpc = "spawned") ~> (ResponseCount = 1)

(***************************************************************************)
(* C20: for add-task, update-task and parse-prd the handler broadcasts     *)
(* taskmaster-tasks-updated for the project exactly when the child closed  *)
(* with code 0 and a WebSocket server is attached, and it does so before   *)
(* the success response; after a close with another code the answer is a   *)
(* 500 and nothing is broadcast.                                           *)
(***************************************************************************)
TaskRoutes == {"add-task", "update-task", "parse-prd"}

IsTasksUpdate(m) ==
    /\ "type" \in DOMAIN m
    /\ m.type = "taskmaster-tasks-updated"
    /\ m.projectName = cliReq.projectName

ClosedWithZero == child.cmd = "closed" /\ child.code = 0

BroadcastIffCleanExit ==
    (cpc # "idle" /\ cliReq.route \in TaskRoutes) =>
        /\ (\E i \in 1 .. Len(outbox) : IsTasksUpdate(outbox[i]))
               <=> (ClosedWithZero /\ cliReq.wss)
        /\ \A i \in 1 .. Len(outbox) :
               IsTasksUpdate(outbox[i]) =>
                   /\ i = 1
                   /\ Len(outbox) = 2
                   /\ outbox[2] = Response(200, SuccessText(cliReq.route))
        /\ (child.cmd = "closed" /\ ~ClosedWithZero) =>
               outbox = <<Response(500, FailureText(cliReq.route))>>

\* a task was added, the clients were told, then the request was answered
BroadcastWitness ==
    /\ cpc = "responded"
    /\ cliReq.route = "add-task"
    /\ child.cmd = "closed"
    /\ Len(outbox) = 2
    /\ IsTasksUpdate(outbox[1])
    /\ outbox[2].code = 200
    /\ tasksFile > cliReq.file


(***************************************************************************)
(* C18: when the installation check reports that the CLI is not installed  *)
(* and no 'tasks-enabled' preference was stored before the provider        *)
(* mounted, tasksEnabled is false once the check has completed.            *)
(***************************************************************************)
ReportsNotInstalled ==
    /\ installationStatus # Null
    /\ ~installationStatus.installation.isInstalled

CheckDisablesTasksWithoutPreference ==
    [][(spc = "checking" /\ spc' = "checked" /\ ReportsNotInstalled'
            /\ saved = NoItem)
          => tasksEnabled' = FALSE]_vars

(***************************************************************************)
(* C21: a broadcast function sends its message once to every client whose  *)
(* readyState is OPEN and to no other client; a send that throws for one   *)
(* client neither keeps the message from the other open clients nor        *)
(* reaches the caller; without a server instance (or projectName or        *)
(* updateType) no client is sent anything.                                 *)
(***************************************************************************)
\* the call was given what its guard requires
HasRequiredArguments ==
    /\ fanCall.wss
    /\ \A i \in 1 .. Len(fanCall.required) : fanCall.required[i] # ""

BroadcastReachesOpenClients ==
    fanCall # NoCall =>
        /\ fanCall.outcome = "returned"
        /\ \A i \in 1 .. Len(clients) :
              clients[i].inbox =
                  IF HasRequiredArguments /\ clients[i].readyState = OPEN
                         /\ ~clients[i].throws
                  THEN <<fanCall.message>>
                  ELSE <<>>

\* the first open client's send threw and the second open client was served
BroadcastWitnessAfterThrow ==
    /\ fanCall # NoCall
    /\ Len(clients) = 2
    /\ clients[1].readyState = OPEN
    /\ clients[1].throws
    /\ clients[2].readyState = OPEN
    /\ Len(clients[2].inbox) = 1

(***************************************************************************)
(* C22: every file a PRD endpoint reads, writes or deletes lies inside     *)
(* <project>/.taskmaster/docs, whatever fileName the client supplies; a    *)
(* fileName that resolves outside that directory is rejected before any    *)
(* file is touched.                                                        *)
(***************************************************************************)
InsideDocs(path) ==
    /\ Len(path) >= Len(DocsPath)
    /\ SubSeq(path, 1, Len(DocsPath)) = DocsPath

PrdFilesStayInsideDocs ==
    prdReq # NoPrdReq =>
        /\ \A i \in 1 .. Len(accessed) : InsideDocs(accessed[i].path)
        /\ ~InsideDocs(PathJoin(DocsPath, prdReq.fileName)) =>
               /\ accessed = <<>>
               /\ prdResp \in {400, 404}

(***************************************************************************)
(* C23: every template id that GET /prd-templates lists can be applied:    *)
(* POST /apply-template finds the template, and the text it substitutes    *)
(* into is the content that was listed and that the client scanned for     *)
(* placeholders.                                                           *)
(***************************************************************************)
ListedTemplateIsApplied ==
    (resp.op = "apply" /\ selectedTemplate.id \in TemplateIds) =>
        /\ resp.code = 404 => resp.error # "Template not found"
        /\ resp.code = 200 => resp.source = selectedTemplate.content

(***************************************************************************)
(* C24: POST /init spawns the init command only for a project whose        *)
(* .taskmaster path does not exist and answers 400 otherwise; of several   *)
(* simultaneous init requests for one uninitialised project at most one    *)
(* spawns the init process.                                                *)
(***************************************************************************)
SpawnedInit == {r \in Requests : ipc[r] \in {"spawned", "closed", "crashed"}}

AtMostOneInitSpawned ==
    /\ Cardinality(SpawnedInit) <= 1
    /\ \A r \in Requests : initAnswers[r] = 400 => dotTaskmaster

(***************************************************************************)
(* C25: for one content of tasks.json the detection metadata and the       *)
(* answer of GET /tasks agree: taskCount is totalTasks, pending is         *)
(* tasksByStatus.pending and completed is tasksByStatus.done, for a flat   *)
(* list, an object with a tasks list and a tagged map of one or several    *)
(* tags, also when tasks omit their status.                                *)
(***************************************************************************)
MetadataAgreesWithTaskList ==
    (req.op = "tasks" /\ "doc" \in DOMAIN req /\ "totalTasks" \in DOMAIN resp) =>
        LET metadata == TaskMetadata(req.doc)
        IN  /\ "taskCount" \in DOMAIN metadata
            /\ metadata.taskCount = resp.totalTasks
            /\ metadata.pending = resp.tasksByStatus["pending"]
            /\ metadata.completed = resp.tasksByStatus["done"]

(***************************************************************************)
(* C26: when the body of PUT update-task supplies a status, the spawned    *)
(* CLI invocation carries that status, also when title, description,       *)
(* priority or details are supplied with it; every supplied field reaches  *)
(* the CLI.                                                                *)
(***************************************************************************)
\* the command line carries field f with the value the body gives it
Carries(command, f, value) ==
    \/ /\ command.cmd = "set-status"
       /\ f = "status"
       /\ command.status = value
    \/ /\ command.cmd = "update-task"
       /\ \E i \in 1 .. Len(command.prompt) :
              command.prompt[i] = [field |-> f, value |-> value]

SuppliedStatusReachesCli ==
    (cpc = "spawned" /\ cliReq.route = "update-task"
         /\ Given(cliReq.body, "status")) =>
        \A f \in DOMAIN cliReq.body :
            Given(cliReq.body, f) => Carries(child, f, cliReq.body[f])

(***************************************************************************)
(* C27: in the setup wizard currentStep stays within 1..4 and changes by   *)
(* exactly one whenever it changes; Next leaves step 1 only with a         *)
(* non-empty projectRoot and step 3 only with a non-blank PRD (otherwise   *)
(* the step stays and an error is set); Next at step 2 ends at step 3      *)
(* whether the MCP check succeeds or fails; Previous never goes below 1.   *)
(***************************************************************************)
StepInRange == currentStep' \in 1 .. totalSteps

StepChangesByOne ==
    currentStep' # currentStep =>
        \/ currentStep' = currentStep + 1
        \/ currentStep' = currentStep - 1

NextValidatesStep ==
    handleNext =>
        /\ currentStep = 1 =>
               IF setupData.projectRoot # ""
               THEN currentStep' = 2
               ELSE currentStep' = 1 /\ error' # NoError
        /\ currentStep = 3 =>
               IF Trim(setupData.prdContent) # <<>>
               THEN currentStep' = 4
               ELSE currentStep' = 3 /\ error' # NoError

McpCheckEndsAtStepThree == McpStatusArrives => currentStep' = 3

PreviousStaysAboveZero == handlePrevious => currentStep' >= 1

WizardStepsOneAtATime ==
    [][/\ StepInRange
       /\ StepChangesByOne
       /\ NextValidatesStep
       /\ McpCheckEndsAtStepThree
       /\ PreviousStaysAboveZero]_vars

(***************************************************************************)
(* C28: whenever Complete Setup runs at step 4, the projectRoot it posts   *)
(* is non-empty and the PRD content is non-blank, whatever Next, Previous, *)
(* field edits and changes of the currentProject prop came before.         *)
(***************************************************************************)
CompleteSetupHasRootAndPrd ==
    posted.sent =>
        /\ posted.projectRoot # ""
        /\ Trim(posted.prdContent) # <<>>

(***************************************************************************)
(* C29: detectTaskMasterMCPServer reads the second file only when the      *)
(* first could not be read and parsed, even when the first holds no        *)
(* task-master entry; in the file it uses a matching user-scoped entry is  *)
(* the one chosen, a project-scoped one only when no user-scoped entry     *)
(* matches; isConfigured is true exactly when the chosen entry has a       *)
(* command or a url.                                                       *)
(***************************************************************************)
\* the file can be read and parsed
ReadAndParsed(file) == file.state \notin {"missing", "malformed"}

\* the positions of the files that can be read and parsed
Usable == {i \in DOMAIN configFiles : ReadAndParsed(configFiles[i])}

\* the matching entries of a list of servers
Matching(servers) == {i \in DOMAIN servers : MatchesTaskMaster(servers[i])}

HasCommandOrUrl(entry) ==
    /\ ~entry.config.null
    /\ entry.config.command # "" \/ entry.config.url # ""

FirstParsedFileDecides ==
    mpc = "done" =>
        /\ Usable = {} =>
               /\ reads = configPaths
               /\ ~detected.hasMCPServer
        /\ Usable # {} =>
               LET first == CHOOSE i \in Usable : \A j \in Usable : i <= j
                   file == configFiles[first]
               IN  /\ reads = SubSeq(configPaths, 1, first)
                   /\ configData = file
                   /\ file.state = "object" /\ Matching(file.mcpServers) # {} =>
                          /\ taskMasterServer.scope # "local"
                          /\ detected.hasMCPServer =>
                                 /\ taskMasterServer.scope = "user"
                                 /\ taskMasterServer.entry \in
                                        {file.mcpServers[i] :
                                            i \in Matching(file.mcpServers)}
                   /\ taskMasterServer.scope = "local" =>
                          /\ Matching(file.mcpServers) = {}
                          /\ \E p \in DOMAIN file.projects :
                                 taskMasterServer.entry \in
                                     {file.projects[p][i] :
                                         i \in Matching(file.projects[p])}
                   /\ file.state = "object"
                          /\ Matching(file.mcpServers) = {}
                          /\ (\A p \in DOMAIN file.projects :
                                  Matching(file.projects[p]) = {}) =>
                          ~detected.hasMCPServer
                   /\ (detected.hasMCPServer /\ detected.isConfigured) <=>
                          /\ taskMasterServer # NoServer
                          /\ HasCommandOrUrl(taskMasterServer.entry)

\* the first file parsed and holds no task-master entry while the second
\* holds a configured one: the second is not read and nothing is detected
FirstFileWithoutEntryWitness ==
    /\ mpc = "done"
    /\ configFiles[1].state = "object"
    /\ Matching(configFiles[1].mcpServers) = {}
    /\ configFiles[1].projects = <<>>
    /\ configFiles[2].state = "object"
    /\ \E i \in Matching(configFiles[2].mcpServers) :
           HasCommandOrUrl(configFiles[2].mcpServers[i])
    /\ reads = <<configPaths[1]>>
    /\ ~detected.hasMCPServer

====
